---- MODULE Spec2Model ----
(***************************************************************************)
(* State-machine model of the video editor automation core:                *)
(*   - TimelineManager (core/timeline_manager.py) and resume_assembly      *)
(*   - AudioProcessor.get_phrases_from_segments (core/audio_processor.py)  *)
(*   - ContentAnalyzer.batch_analyze_segments (core/content_analyzer.py)   *)
(*   - FaceDetector.calculate_safe_zones (core/face_detector.py)           *)
(*   - VideoAssembler / FFmpegVideoAssembler.assemble_final_video          *)
(* Times are seconds on an integer grid; the code only adds, subtracts and *)
(* compares them.  Strings that pass through a file are sequences of code  *)
(* points, so that encoding and decoding are computed, not assumed.        *)
(***************************************************************************)
EXTENDS Integers, Sequences, FiniteSets, TLC

(***************************************************************************)
(* Bounds of the model                                                     *)
(***************************************************************************)
MaxSegs == 2        \* timeline segments added before the plan is built
MaxTime == 3        \* timeline times range over 0..MaxTime
MaxSpeech == 3      \* speech segments in one transcription
MaxSpeechTime == 4  \* speech segment times range over 0..MaxSpeechTime
MaxDurationArg == 2 \* the max_duration passed to get_phrases_from_segments
MaxAnalyzed == 6    \* segments passed to batch_analyze_segments
MaxScore == 1       \* importance_score ranges over 0..MaxScore
MaxDim == 5         \* the largest frame is MaxDim x MaxDim pixels
MaxFaces == 1       \* face rectangles passed to calculate_safe_zones
MaxChunks == 2      \* chunks a cache entry is written in
MaxImages == 6      \* images in a run rendered for its transitions
MaxTextEnd == 4     \* a rendered text segment ends by tick MaxTextEnd
MaxWords == 3       \* words of a rendered text segment

VARIABLES
  \* --- TimelineManager / resume_assembly ---
  segments,          \* TimelineManager.segments
  tl_pc,             \* position in main.py phase 5: "adding", "built", "exported", "resumed", "raised"
  video_duration,    \* argument of the last build_render_timeline call
  render_timeline,   \* value returned by build_render_timeline
  timeline_json,     \* content of the exported timeline file (bytes of every string)
  resumed_timeline,  \* render_timeline that resume_assembly hands to the assembler
  resumed_text,      \* text_segments that resume_assembly hands to the assembler
  rebuilt_timeline,  \* plan returned by a second build_render_timeline call
  \* --- AudioProcessor.get_phrases_from_segments ---
  speech_segments,   \* the argument segments
  max_duration,      \* the argument max_duration
  phrases,           \* the local list phrases
  current_phrase,    \* the local dict current_phrase
  seg_i,             \* index of the next segment the for loop takes
  ph_pc,             \* "idle", "transcribing", "loop", "done"
  \* --- ContentAnalyzer.batch_analyze_segments ---
  results,           \* the local list results
  filtered_results,  \* the returned list
  an_pc,             \* "idle", "loop", "done"
  failed_id,         \* id of the segment whose scoring call failed last, or None
  \* --- FaceDetector.calculate_safe_zones ---
  frame_w,           \* frame.shape[1]
  frame_h,           \* frame.shape[0]
  faces,             \* the argument faces
  zones,             \* the returned list
  fd_pc,             \* "idle", "detecting", "done"
  \* --- assemble_final_video ---
  as_pc,             \* "idle", "waiting", "done", "raised"
  assembler,         \* "none", "moviepy", "ffmpeg": the class whose method ran
  as_text_segments,  \* the argument text_segments
  missing_files,     \* image paths of the plan with no file on disk
  clips,             \* the list clips / segment_paths when the method ended
  with_audio,        \* audio track after the source audio was attached
  output,            \* audio track of the file at output_path
  \* --- CacheManager, two pipelines on one key ---
  cache_kind,        \* "transcription", "face_detection" or "image"
  cache_file,        \* the cache file of the key: exists, content
  ca_pc,             \* per pipeline: "load", "load_read", "save", "save_write", "done", "raised"
  ca_pos,            \* per pipeline: file position of its open-for-write handle
  ca_result,         \* per pipeline: "none", "miss", "hit", "raised"
  ca_loaded,         \* per pipeline: the entry its load returned
  \* --- process_video, phases 4 and 5 ---
  pl_pc,             \* "idle", "analysis", "timeline", "added"
  generated_images,  \* the dict generated_images, in insertion order
  \* --- main() ---
  mn_pc,             \* "idle", "start", "parsed", "input_checked", "processing",
                     \* "returned", "handling", "exited"
  args_valid,        \* the command line parses
  input_exists,      \* args.input.exists()
  api_key_arg,       \* --api-key was given
  api_key_env,       \* settings.OPENAI_API_KEY is set
  skip_cache,        \* --skip-cache was given
  stdout_encoding,   \* sys.stdout.encoding
  process_outcome,   \* "none", "returned", "raised": how process_video ended
  printed,           \* what print has written to stdout
  exit_code,         \* exit status of the process, None while it runs
  \* --- FFmpegVideoAssembler, transitions of a run of images ---
  tr_pc,             \* "idle", "planning", "rendered"
  tr_timeline,       \* the image entries of the plan
  tr_clips,          \* segment_paths after the loop over the images
  \* --- text overlays of one text segment ---
  tx_pc,             \* "idle", "waiting", "given", "done", "raised"
  tx_path,           \* render path taken: moviepy with or without images, ffmpeg
  tx_segment,        \* the text segment handed to the assembler
  tx_map,            \* safe_zones_map, keyed by doubled timestamps
  tx_clips,          \* the text clips composited over the video
  tx_position,       \* the position the text is drawn at
  \* --- process_video, phase 1 ---
  p1_pc,             \* "idle", "start", "called", "try", "after_try", "left", "raised"
  p1_skip_cache,     \* the skip_cache argument
  p1_cache_setting,  \* settings.CACHE_TRANSCRIPTION
  p1_cache,          \* the cached transcription of the video, or NoTranscription
  p1_audio_exists,   \* whether a file exists at audio_path
  p1_transcription,  \* transcription_data
  p1_outcome,        \* how far the phase got
  p1_saved           \* save_transcription was called in this run

tlVars == <<segments, tl_pc, video_duration, render_timeline, timeline_json,
            resumed_timeline, resumed_text, rebuilt_timeline>>
phVars == <<speech_segments, max_duration, phrases, current_phrase, seg_i, ph_pc>>

anVars == <<results, filtered_results, an_pc, failed_id>>

fdVars == <<frame_w, frame_h, faces, zones, fd_pc>>

asVars == <<as_pc, assembler, as_text_segments, missing_files, clips, with_audio,
            output>>

caVars == <<cache_kind, cache_file, ca_pc, ca_pos, ca_result, ca_loaded>>

plVars == <<pl_pc, generated_images>>

mnVars == <<mn_pc, args_valid, input_exists, api_key_arg, api_key_env, skip_cache,
            stdout_encoding, process_outcome, printed, exit_code>>

trVars == <<tr_pc, tr_timeline, tr_clips>>

txVars == <<tx_pc, tx_path, tx_segment, tx_map, tx_clips, tx_position>>

p1Vars == <<p1_pc, p1_skip_cache, p1_cache_setting, p1_cache, p1_audio_exists,
            p1_transcription, p1_outcome, p1_saved>>

vars == <<tlVars, phVars, anVars, fdVars, asVars, caVars, plVars, mnVars, trVars,
          txVars, p1Vars>>

\* What each component leaves alone: the state of the others.
notTl == <<phVars, anVars, fdVars, asVars, caVars, plVars,
          mnVars, trVars, txVars, p1Vars>>
notPh == <<tlVars, anVars, fdVars, asVars, caVars, plVars,
          mnVars, trVars, txVars, p1Vars>>
notAn == <<tlVars, phVars, fdVars, asVars, caVars, plVars,
          mnVars, trVars, txVars, p1Vars>>
notFd == <<tlVars, phVars, anVars, asVars, caVars, plVars,
          mnVars, trVars, txVars, p1Vars>>
notMn == <<tlVars, phVars, anVars, fdVars, asVars, caVars, plVars, trVars,
          txVars, p1Vars>>
notTr == <<tlVars, phVars, anVars, fdVars, asVars, caVars, plVars, mnVars,
          txVars, p1Vars>>
notTx == <<tlVars, phVars, anVars, fdVars, asVars, caVars, plVars, mnVars,
          trVars, p1Vars>>
notP1 == <<tlVars, phVars, anVars, fdVars, asVars, caVars, plVars, mnVars,
          trVars, txVars>>
notCa == <<tlVars, phVars, anVars, fdVars, asVars, plVars,
          mnVars, trVars, txVars, p1Vars>>

(***************************************************************************)
(* Generic helpers: Python's list.sort is stable                           *)
(***************************************************************************)
Max2(a, b) == IF a >= b THEN a ELSE b
Min2(a, b) == IF a <= b THEN a ELSE b

\* Position at which index i is inserted into the sorted index list idxs:
\* after every element whose key is <= key[i] (this is what keeps ties in
\* their original order).
InsertPos(key, idxs, i) ==
  LET bigger == {p \in 1..Len(idxs) : key[idxs[p]] > key[i]}
  IN IF bigger = {} THEN Len(idxs) + 1
     ELSE CHOOSE p \in bigger : \A q \in bigger : p <= q

InsertIdx(key, idxs, i) ==
  LET p == InsertPos(key, idxs, i)
  IN SubSeq(idxs, 1, p - 1) \o <<i>> \o SubSeq(idxs, p, Len(idxs))

RECURSIVE SortedIdx(_, _)
SortedIdx(key, n) ==
  IF n = 0 THEN <<>> ELSE InsertIdx(key, SortedIdx(key, n - 1), n)

\* list.sort(key=...) : ascending by key[i], stable.
StableSort(seq, key) ==
  LET idx == SortedIdx(key, Len(seq))
  IN [p \in 1..Len(seq) |-> seq[idx[p]]]

(***************************************************************************)
(* Strings in files: UTF-8 writer, locale-dependent reader                 *)
(***************************************************************************)
\* str.encode("utf-8") for code points below U+0800.
Utf8EncodeChar(cp) ==
  IF cp < 128 THEN <<cp>> ELSE <<192 + (cp \div 64), 128 + (cp % 64)>>

RECURSIVE Utf8Encode(_)
Utf8Encode(s) ==
  IF s = <<>> THEN <<>> ELSE Utf8EncodeChar(Head(s)) \o Utf8Encode(Tail(s))

\* bytes.decode("utf-8") of well-formed one- and two-byte sequences.
RECURSIVE Utf8Decode(_)
Utf8Decode(b) ==
  IF b = <<>> THEN <<>>
  ELSE IF Head(b) < 128 THEN <<Head(b)>> \o Utf8Decode(Tail(b))
  ELSE <<(Head(b) - 192) * 64 + (b[2] - 128)>> \o Utf8Decode(Tail(Tail(b)))

\* bytes.decode("cp1252"): one character per byte; outside 0x80..0x9F the
\* code point equals the byte (the texts modelled here never produce a byte
\* of that block, which cp1252 remaps or leaves undefined).
Cp1252Decode(b) == [i \in 1..Len(b) |-> b[i]]

\* open(path, 'r') without encoding= decodes with the locale's preferred
\* encoding: UTF-8 on most POSIX systems, cp1252 on Western Windows.
Encodings == {"utf-8", "cp1252"}
LocaleDecode(enc, b) == IF enc = "utf-8" THEN Utf8Decode(b) ELSE Cp1252Decode(b)

(***************************************************************************)
(* TimelineManager                                                         *)
(***************************************************************************)
PRIORITY_CUSTOM_IMAGE == 100
PRIORITY_AI_IMAGE == 50
PRIORITY_TEXT == 10

\* Caption text handed to add_text_segment: "hé" (one ASCII, one non-ASCII
\* character).
CaptionText == <<104, 233>>
\* Path of the k-th image handed to add_ai_image_segment: "i1", "i2", ...
ImagePath(k) == <<105, 48 + k>>
\* analysis_data handed to add_ai_image_segment, reduced to its text.
AnalysisData == <<104>>

ImageTypes == {"ai_image", "custom_image"}

add_text_segment(segs, start_time, end_time, text_data) ==
  Append(segs, [start_time |-> start_time, end_time |-> end_time,
                segment_type |-> "text", data |-> text_data,
                priority |-> PRIORITY_TEXT])

add_ai_image_segment(segs, start_time, end_time, image_path, analysis_data) ==
  Append(segs, [start_time |-> start_time, end_time |-> end_time,
                segment_type |-> "ai_image",
                data |-> [image_path |-> image_path, analysis |-> analysis_data],
                priority |-> PRIORITY_AI_IMAGE])

IsImageSegment(s) == s.segment_type \in ImageTypes
IsTextSegment(s) == s.segment_type = "text"

\* image_segments.sort(key=lambda s: s.start_time)
SortedImageSegments(segs) ==
  LET imgs == SelectSeq(segs, IsImageSegment)
  IN StableSort(imgs, [i \in 1..Len(imgs) |-> imgs[i].start_time])

\* The loop over the sorted image segments (lines 54-60): the entries
\* emitted so far and the cursor current_time.
RECURSIVE WalkImageSegments(_, _, _)
WalkImageSegments(imgs, timeline, current_time) ==
  IF imgs = <<>> THEN [timeline |-> timeline, current_time |-> current_time]
  ELSE LET img_seg == Head(imgs)
           gap == IF img_seg.start_time > current_time
                  THEN <<[type |-> "original_video", start |-> current_time,
                          end |-> img_seg.start_time]>>
                  ELSE <<>>
           entry == [type |-> img_seg.segment_type, start |-> img_seg.start_time,
                     end |-> img_seg.end_time,
                     duration |-> img_seg.end_time - img_seg.start_time,
                     data |-> img_seg.data]
       IN WalkImageSegments(Tail(imgs), timeline \o gap \o <<entry>>, img_seg.end_time)

\* lines 63-65 with a slip: the overlay is cut down to its first instant.
TextOverlayEntry_Truncated(text_seg) ==
  [type |-> "text_overlay", start |-> text_seg.start_time, end |-> text_seg.start_time,
   duration |-> 0, data |-> text_seg.data]

\* lines 63-65: the text_overlay entry of a text segment.
TextOverlayEntry(text_seg) ==
  [type |-> "text_overlay", start |-> text_seg.start_time, end |-> text_seg.end_time,
   duration |-> text_seg.end_time - text_seg.start_time, data |-> text_seg.data]

\* build_render_timeline without line 66: the entries stay as appended.
SortByStart_NoSort(timeline) == timeline

\* timeline.sort(key=lambda x: x.get("start", 0))
SortByStart(timeline) ==
  StableSort(timeline, [i \in 1..Len(timeline) |-> timeline[i].start])

\* build_render_timeline with a slip in lines 50-53: self.segments itself is
\* sorted by start instead of the filtered copy.
SegmentsAfterBuild_SortedInPlace(segs) ==
  StableSort(segs, [i \in 1..Len(segs) |-> segs[i].start_time])

\* self.segments after build_render_timeline: lines 50-51 filter it into
\* new lists and line 53 sorts the new list, so it is left as it was.
SegmentsAfterBuild(segs) == segs

\* build_render_timeline without lines 61-62 (the trailing original_video entry).
BuildRenderTimeline_NoTrailing(segs, vd) ==
  LET text_segments == SelectSeq(segs, IsTextSegment)
      walked == WalkImageSegments(SortedImageSegments(segs), <<>>, 0)
      texts == [i \in 1..Len(text_segments) |-> TextOverlayEntry(text_segments[i])]
  IN SortByStart(walked.timeline \o texts)

BuildRenderTimeline(segs, vd) ==
  LET text_segments == SelectSeq(segs, IsTextSegment)
      walked == WalkImageSegments(SortedImageSegments(segs), <<>>, 0)
      tail == IF walked.current_time < vd
              THEN <<[type |-> "original_video", start |-> walked.current_time,
                      end |-> vd]>>
              ELSE <<>>
      texts == [i \in 1..Len(text_segments) |-> TextOverlayEntry(text_segments[i])]
  IN SortByStart(walked.timeline \o tail \o texts)

\* json.dump(..., ensure_ascii=False) into a file opened with encoding='utf-8':
\* numbers are written as they are, every string as its UTF-8 bytes.
EncodeData(data) == [k \in DOMAIN data |-> Utf8Encode(data[k])]
DecodeData(enc, data) == [k \in DOMAIN data |-> LocaleDecode(enc, data[k])]

ExportTimeline(segs) ==
  [i \in 1..Len(segs) |->
     [start_time |-> segs[i].start_time, end_time |-> segs[i].end_time,
      type |-> segs[i].segment_type, priority |-> segs[i].priority,
      data |-> EncodeData(segs[i].data)]]

\* json.load of a file opened with open(timeline_json, 'r').
LoadTimelineJson(enc, file) ==
  [i \in 1..Len(file) |->
     [start_time |-> file[i].start_time, end_time |-> file[i].end_time,
      type |-> file[i].type, priority |-> file[i].priority,
      data |-> DecodeData(enc, file[i].data)]]

(***************************************************************************)
(* resume_assembly                                                         *)
(***************************************************************************)
ConvertedSeg(seg) ==
  [start |-> seg.start_time, end |-> seg.end_time, type |-> seg.type, data |-> seg.data]

IsRenderSeg(seg) == seg.type \in {"video", "ai_image", "custom_image"}
IsTextSeg(seg) == seg.type = "text"

ResumeRenderTimeline(loaded) ==
  LET keep == SelectSeq(loaded, IsRenderSeg)
  IN [i \in 1..Len(keep) |-> ConvertedSeg(keep[i])]

ResumeTextSegments(loaded) ==
  LET keep == SelectSeq(loaded, IsTextSeg)
  IN [i \in 1..Len(keep) |-> ConvertedSeg(keep[i])]

(***************************************************************************)
(* Timeline actions (main.py phase 5, then resume_assembly)                *)
(***************************************************************************)
TimelineInit ==
  /\ segments = <<>>
  /\ tl_pc = "adding"
  /\ video_duration = 0
  /\ render_timeline = <<>>
  /\ timeline_json = <<>>
  /\ resumed_timeline = <<>>
  /\ resumed_text = <<>>
  /\ rebuilt_timeline = <<>>

AddTextSegment ==
  /\ tl_pc = "adding"
  /\ Len(segments) < MaxSegs
  /\ \E start_time \in 0..MaxTime : \E end_time \in start_time..MaxTime :
       segments' = add_text_segment(segments, start_time, end_time,
                                    [text |-> CaptionText])
  /\ UNCHANGED <<tl_pc, video_duration, render_timeline, timeline_json,
                 resumed_timeline, resumed_text, rebuilt_timeline, notTl>>

AddAiImageSegment ==
  /\ tl_pc = "adding"
  /\ Len(segments) < MaxSegs
  /\ \E start_time \in 0..MaxTime : \E end_time \in start_time..MaxTime :
       segments' = add_ai_image_segment(segments, start_time, end_time,
                                        ImagePath(Len(segments) + 1), AnalysisData)
  /\ UNCHANGED <<tl_pc, video_duration, render_timeline, timeline_json,
                 resumed_timeline, resumed_text, rebuilt_timeline, notTl>>

BuildTimeline ==
  /\ tl_pc = "adding"
  /\ \E vd \in 0..MaxTime :
       /\ video_duration' = vd
       /\ render_timeline' = BuildRenderTimeline(segments, vd)
  /\ segments' = SegmentsAfterBuild(segments)
  /\ tl_pc' = "built"
  /\ UNCHANGED <<timeline_json, resumed_timeline, resumed_text, rebuilt_timeline,
                 notTl>>

\* build_render_timeline is called a second time with the same
\* video_duration, no add_* call in between.
BuildTimelineAgain ==
  /\ tl_pc = "built"
  /\ rebuilt_timeline' = BuildRenderTimeline(segments, video_duration)
  /\ segments' = SegmentsAfterBuild(segments)
  /\ tl_pc' = "rebuilt"
  /\ UNCHANGED <<video_duration, render_timeline, timeline_json, resumed_timeline,
                 resumed_text, notTl>>

ExportTimelineFile ==
  /\ tl_pc = "built"
  /\ timeline_json' = ExportTimeline(segments)
  /\ tl_pc' = "exported"
  /\ UNCHANGED <<segments, video_duration, render_timeline, resumed_timeline,
                 resumed_text, rebuilt_timeline, notTl>>

ResumeAssembly ==
  /\ tl_pc = "exported"
  /\ \E enc \in Encodings :
       LET loaded == LoadTimelineJson(enc, timeline_json)
       IN /\ resumed_timeline' = ResumeRenderTimeline(loaded)
          /\ resumed_text' = ResumeTextSegments(loaded)
  /\ tl_pc' = "resumed"
  /\ UNCHANGED <<segments, video_duration, render_timeline, timeline_json,
                 rebuilt_timeline, notTl>>

TimelineNext ==
  \/ AddTextSegment
  \/ AddAiImageSegment
  \/ BuildTimeline
  \/ BuildTimelineAgain
  \/ ExportTimelineFile
  \/ ResumeAssembly

TimelineIdle ==
  /\ segments = <<>>
  /\ tl_pc = "idle"
  /\ video_duration = 0
  /\ render_timeline = <<>>
  /\ timeline_json = <<>>
  /\ resumed_timeline = <<>>
  /\ resumed_text = <<>>
  /\ rebuilt_timeline = <<>>

(***************************************************************************)
(* AudioProcessor.get_phrases_from_segments                                *)
(***************************************************************************)
\* Python's None in current_phrase["start"] / ["end"]; times are >= 0.
None == -1

\* Segment texts: "" and "a".
SegTexts == {<<>>, <<97>>}
Space == <<32>>

\* A transcription segment: Whisper numbers its segments 0, 1, 2, ... and
\* returns them in time order (start never decreases), each with end > start.
SpeechSegment(id, text, start, end) ==
  [id |-> id, text |-> text, start |-> start, end |-> end]

EmptyPhrase == [text |-> <<>>, start |-> None, end |-> None, segment_ids |-> <<>>]

\* line 69 with a slip: measured to the segment's start instead of its end.
PhraseDuration_FromSegmentStart(segment, phrase_start) ==
  segment.start - phrase_start

\* line 69: duration = segment["end"] - current_phrase["start"]
PhraseDuration(segment, phrase_start) == segment.end - phrase_start

\* lines 73-78 with a slip: the new phrase keeps the closed phrase's ids.
NewPhrase_KeepIds(segment, closed) ==
  [text |-> segment.text, start |-> segment.start, end |-> segment.end,
   segment_ids |-> Append(closed.segment_ids, segment.id)]

\* lines 73-78: the phrase opened by the segment that triggered a split.
NewPhrase(segment, closed) ==
  [text |-> segment.text, start |-> segment.start, end |-> segment.end,
   segment_ids |-> <<segment.id>>]

\* lines 80-85 with a slip: the text of the first segment is not taken over.
ExtendPhrase_DropFirstText(current, segment) ==
  [current EXCEPT
     !.text = IF current.text # <<>> THEN current.text \o Space \o segment.text
              ELSE current.text,
     !.end = segment.end,
     !.segment_ids = Append(@, segment.id)]

\* lines 80-85: the segment is appended to the current phrase.
ExtendPhrase(current, segment) ==
  [current EXCEPT
     !.text = IF current.text # <<>> THEN current.text \o Space \o segment.text
              ELSE segment.text,
     !.end = segment.end,
     !.segment_ids = Append(@, segment.id)]

\* lines 67-70 with a slip: the current phrase's text is not looked at.
SplitsPhrase_IgnoreText(current, segment, maxd) ==
  PhraseDuration(segment, current.start) > maxd

\* lines 67-70: whether the segment closes the current phrase.
SplitsPhrase(current, segment, maxd) ==
  PhraseDuration(segment, current.start) > maxd /\ current.text # <<>>

\* lines 67-68 with a slip: an empty phrase starts at the segment's end.
StartPhrase_AtSegmentEnd(current, segment) ==
  IF current.start = None THEN [current EXCEPT !.start = segment.end] ELSE current

\* lines 67-68: a phrase without a start takes the segment's start.
StartPhrase(current, segment) ==
  IF current.start = None THEN [current EXCEPT !.start = segment.start] ELSE current

\* The iteration with a slip in line 71: the closed phrase keeps its end.
PhraseLoopBody_KeepEnd(phr, current, segment, maxd) ==
  LET started == StartPhrase(current, segment)
  IN IF SplitsPhrase(started, segment, maxd)
     THEN [phrases |-> Append(phr, started),
           current_phrase |-> NewPhrase(segment, started)]
     ELSE [phrases |-> phr, current_phrase |-> ExtendPhrase(started, segment)]

\* One iteration of the for loop (lines 66-85).
PhraseLoopBody(phr, current, segment, maxd) ==
  LET started == StartPhrase(current, segment)
  IN IF SplitsPhrase(started, segment, maxd)
     THEN [phrases |-> Append(phr, [started EXCEPT !.end = segment.start]),
           current_phrase |-> NewPhrase(segment, started)]
     ELSE [phrases |-> phr, current_phrase |-> ExtendPhrase(started, segment)]

PhraseInit ==
  /\ speech_segments = <<>>
  /\ max_duration = 0
  /\ phrases = <<>>
  /\ current_phrase = EmptyPhrase
  /\ seg_i = 1
  /\ ph_pc = "transcribing"

PhraseIdle ==
  /\ speech_segments = <<>>
  /\ max_duration = 0
  /\ phrases = <<>>
  /\ current_phrase = EmptyPhrase
  /\ seg_i = 1
  /\ ph_pc = "idle"

\* translate_to_english, lines 50-56: one more segment of the transcription
\* is appended to result["segments"].
TranscribeSegment ==
  /\ ph_pc = "transcribing"
  /\ Len(speech_segments) < MaxSpeech
  /\ LET lo == IF speech_segments = <<>> THEN 0
               ELSE speech_segments[Len(speech_segments)].start
     IN \E start \in lo..(MaxSpeechTime - 1) : \E end \in (start + 1)..MaxSpeechTime :
          \E text \in SegTexts :
            speech_segments' = Append(speech_segments,
                                 SpeechSegment(Len(speech_segments), text, start, end))
  /\ UNCHANGED <<max_duration, phrases, current_phrase, seg_i, ph_pc, notPh>>

\* get_phrases_from_segments(segments, max_duration) is called (lines 63-65).
GetPhrases ==
  /\ ph_pc = "transcribing"
  /\ max_duration' = MaxDurationArg
  /\ phrases' = <<>>
  /\ current_phrase' = EmptyPhrase
  /\ seg_i' = 1
  /\ ph_pc' = "loop"
  /\ UNCHANGED <<speech_segments, notPh>>

\* for segment in segments: ...
PhraseStep ==
  /\ ph_pc = "loop"
  /\ seg_i <= Len(speech_segments)
  /\ LET r == PhraseLoopBody(phrases, current_phrase, speech_segments[seg_i],
                             max_duration)
     IN /\ phrases' = r.phrases
        /\ current_phrase' = r.current_phrase
  /\ seg_i' = seg_i + 1
  /\ UNCHANGED <<speech_segments, max_duration, ph_pc, notPh>>

\* lines 86-89: the final open phrase is emitted if it has text; return.
PhraseReturn ==
  /\ ph_pc = "loop"
  /\ seg_i > Len(speech_segments)
  /\ phrases' = IF current_phrase.text # <<>> THEN Append(phrases, current_phrase)
                ELSE phrases
  /\ ph_pc' = "done"
  /\ UNCHANGED <<speech_segments, max_duration, current_phrase, seg_i, notPh>>

PhraseNext ==
  \/ TranscribeSegment
  \/ GetPhrases
  \/ PhraseStep
  \/ PhraseReturn

(***************************************************************************)
(* ContentAnalyzer.batch_analyze_segments                                  *)
(***************************************************************************)
MAX_IMAGES_TOTAL == 5
MIN_IMAGES_GUARANTEED == 3

\* The i-th segment handed to the analyzer (i from 0): Whisper id i, one
\* second long, starting at second i.
AnalyzedSegment(i) == [id |-> i, start |-> i, end |-> i + 1]

\* analyze_segment, lines 42-49: the scorer's JSON answer with the segment's
\* id and time bounds added.
AnalysisResult(segment, needs, score) ==
  [needs_visualization |-> needs, importance_score |-> score,
   image_prompt |-> IF needs THEN "prompt" ELSE "None",
   segment_id |-> segment.id, start_time |-> segment.start,
   end_time |-> segment.end]

\* The default result without the segment's time bounds.
DefaultResult_NoTimeBounds(segment) ==
  [needs_visualization |-> FALSE, importance_score |-> 0,
   image_prompt |-> "None",
   segment_id |-> segment.id, start_time |-> None, end_time |-> None]

\* analyze_segment, lines 50-62: the default result after a failed call.
DefaultResult(segment) ==
  [needs_visualization |-> FALSE, importance_score |-> 0,
   image_prompt |-> "None",
   segment_id |-> segment.id, start_time |-> segment.start,
   end_time |-> segment.end]

\* The sort written as sorted(results, key=...)[::-1]: ascending, then
\* reversed, which turns the results of equal score around.
SortByImportance_AscendingReversed(res) ==
  LET asc == StableSort(res, [i \in 1..Len(res) |-> res[i].importance_score])
  IN [i \in 1..Len(asc) |-> asc[Len(asc) + 1 - i]]

\* results.sort(key=lambda x: x.get("importance_score", 0), reverse=True):
\* descending, and stable also with reverse=True.
SortByImportance(res) ==
  StableSort(res, [i \in 1..Len(res) |-> 0 - res[i].importance_score])

NeedsVisualization(r) == r.needs_visualization

Take(seq, n) == SubSeq(seq, 1, Min2(n, Len(seq)))

\* lines 109-126 with a slip: the fallback returns the candidates only.
SelectImages_NoMinimum(res) ==
  LET sorted == SortByImportance(res)
      visualization_candidates == SelectSeq(sorted, NeedsVisualization)
  IN IF Len(visualization_candidates) >= MAX_IMAGES_TOTAL
     THEN Take(visualization_candidates, MAX_IMAGES_TOTAL)
     ELSE visualization_candidates

\* lines 109-126: sort by importance, then top 5 candidates / all the
\* candidates / the top 3 results.
SelectImages(res) ==
  LET sorted == SortByImportance(res)
      visualization_candidates == SelectSeq(sorted, NeedsVisualization)
  IN IF Len(visualization_candidates) >= MAX_IMAGES_TOTAL
     THEN Take(visualization_candidates, MAX_IMAGES_TOTAL)
     ELSE IF Len(visualization_candidates) >= MIN_IMAGES_GUARANTEED
     THEN visualization_candidates
     ELSE Take(sorted, MIN_IMAGES_GUARANTEED)

AnalyzerInit ==
  /\ results = <<>>
  /\ filtered_results = <<>>
  /\ an_pc = "loop"
  /\ failed_id = None

AnalyzerIdle ==
  /\ results = <<>>
  /\ filtered_results = <<>>
  /\ an_pc = "idle"
  /\ failed_id = None

\* One iteration of the loop of lines 95-107: analyze_segment either gets an
\* answer from the scorer or catches the failure and returns the default.
AnalyzeSegment ==
  /\ an_pc = "loop"
  /\ Len(results) < MaxAnalyzed
  /\ LET segment == AnalyzedSegment(Len(results))
     IN \/ /\ \E needs \in BOOLEAN : \E score \in 0..MaxScore :
                results' = Append(results, AnalysisResult(segment, needs, score))
           /\ UNCHANGED failed_id
        \/ /\ results' = Append(results, DefaultResult(segment))
           /\ failed_id' = segment.id
  /\ UNCHANGED <<filtered_results, an_pc, notAn>>

\* The loop has taken every segment (the list had Len(results) of them):
\* lines 109-126, results is sorted in place and the selection returned.
SelectAndReturn ==
  /\ an_pc = "loop"
  /\ results' = SortByImportance(results)
  /\ filtered_results' = SelectImages(results)
  /\ an_pc' = "done"
  /\ UNCHANGED <<failed_id, notAn>>

AnalyzerNext ==
  \/ AnalyzeSegment
  \/ SelectAndReturn

(***************************************************************************)
(* FaceDetector.calculate_safe_zones (src/core/face_detector.py)           *)
(*                                                                         *)
(* Lengths are pixels.  A score is the float 100 - sum of percentages; the *)
(* model keeps it exactly as an integer number of ScoreScale-ths, where    *)
(* ScoreScale is the area of a grid cell.  For the frames modelled a cell  *)
(* has area 0, 1, 2 or 4, so every percentage is a multiple of 25 and the  *)
(* float computation is exact as well.                                     *)
(***************************************************************************)
FrameSizes == {1, 3, MaxDim}

\* A face rectangle (x, y, w, h) as detect_faces returns it.
Face(x, y, w, h) == [x |-> x, y |-> y, w |-> w, h |-> h]

\* The rectangles detectMultiScale can report in a frame of w x h pixels.
FacesIn(w, h) ==
  {f \in [x : 0..(w - 1), y : 0..(h - 1), w : 1..w, h : 1..h] :
     f.x + f.w <= w /\ f.y + f.h <= h}

\* The unit of the scores of one frame: score = zone.score / ScoreScale.
ScoreScale(grid_w, grid_h) ==
  IF grid_w * grid_h = 0 THEN 1 ELSE grid_w * grid_h

_rectangles_overlap(x1, y1, w1, h1, x2, y2, w2, h2) ==
  ~ (x1 + w1 < x2 \/ x2 + w2 < x1 \/ y1 + h1 < y2 \/ y2 + h2 < y1)

\* (intersection / area1) * 100, in ScoreScale-ths (area1 is the cell area).
_calculate_overlap_percentage(x1, y1, w1, h1, x2, y2, w2, h2) ==
  LET x_overlap == Max2(0, Min2(x1 + w1, x2 + w2) - Max2(x1, x2))
      y_overlap == Max2(0, Min2(y1 + h1, y2 + h2) - Max2(y1, y2))
      intersection == x_overlap * y_overlap
      area1 == w1 * h1
  IN IF area1 = 0 THEN 0 ELSE intersection * 100

\* for (fx, fy, fw, fh) in faces: ... zone.score -= overlap
RECURSIVE SubtractFaces(_, _, _, _, _, _)
SubtractFaces(score, x, y, grid_w, grid_h, fs) ==
  IF fs = <<>> THEN score
  ELSE LET f == Head(fs)
           overlap ==
             IF _rectangles_overlap(x, y, grid_w, grid_h, f.x, f.y, f.w, f.h)
             THEN _calculate_overlap_percentage(x, y, grid_w, grid_h,
                                                f.x, f.y, f.w, f.h)
             ELSE 0
       IN SubtractFaces(score - overlap, x, y, grid_w, grid_h, Tail(fs))

\* max(0, min(100, score)) with the lower bound forgotten.
ClampScore_NoFloor(score, scale) == Min2(100 * scale, score)

\* zone.score = max(0, min(100, zone.score))
ClampScore(score, scale) == Max2(0, Min2(100 * scale, score))

\* The body of the two loops for one cell.  row and col are the loop
\* indices; SafeZone has no such fields, the model keeps them to tell which
\* cell a zone is.
MakeZone(row, col, grid_w, grid_h, fs) ==
  LET x == col * grid_w
      y == row * grid_h
      scale == ScoreScale(grid_w, grid_h)
      s0 == SubtractFaces(100 * scale, x, y, grid_w, grid_h, fs)
      s1 == IF row = 1 /\ col = 1 THEN s0 - 10 * scale ELSE s0
      s2 == IF row = 2 THEN s1 + 15 * scale ELSE s1
  IN [x |-> x, y |-> y, width |-> grid_w, height |-> grid_h,
      score |-> ClampScore(s2, scale), row |-> row, col |-> col]

\* zones.sort(key=lambda z: z.score, reverse=True): descending and stable.
SortByScore(zs) == StableSort(zs, [i \in 1..Len(zs) |-> 0 - zs[i].score])

calculate_safe_zones(w, h, fs) ==
  LET grid_h == h \div 3
      grid_w == w \div 3
      scanned == [k \in 1..9 |->
                    MakeZone((k - 1) \div 3, (k - 1) % 3, grid_w, grid_h, fs)]
  IN SortByScore(scanned)

ZonesInit ==
  /\ frame_w \in FrameSizes
  /\ frame_h \in FrameSizes
  /\ faces = <<>>
  /\ zones = <<>>
  /\ fd_pc = "detecting"

ZonesIdle ==
  /\ frame_w = 0
  /\ frame_h = 0
  /\ faces = <<>>
  /\ zones = <<>>
  /\ fd_pc = "idle"

\* detect_faces reports one more rectangle of the frame.
DetectFace ==
  /\ fd_pc = "detecting"
  /\ Len(faces) < MaxFaces
  /\ \E f \in FacesIn(frame_w, frame_h) : faces' = Append(faces, f)
  /\ UNCHANGED <<frame_w, frame_h, zones, fd_pc, notFd>>

\* safe_zones = self.calculate_safe_zones(frame, faces)
CalculateSafeZones ==
  /\ fd_pc = "detecting"
  /\ zones' = calculate_safe_zones(frame_w, frame_h, faces)
  /\ fd_pc' = "done"
  /\ UNCHANGED <<frame_w, frame_h, faces, notFd>>

ZonesNext ==
  \/ DetectFace
  \/ CalculateSafeZones

(***************************************************************************)
(* VideoAssembler (src/core/video_assembler.py) and FFmpegVideoAssembler   *)
(* (src/core/video_assembler_ffmpeg.py): assemble_final_video              *)
(*                                                                         *)
(* A clip is a stretch [start, end) of the source video or an image shown  *)
(* for end - start seconds.  An audio track is the sequence of stretches   *)
(* of the source audio it plays; the source audio is as long as the source *)
(* video.                                                                  *)
(***************************************************************************)
NoPath == <<>>

SourceAudio(duration) == <<[start |-> 0, end |-> duration]>>
NoAudio == <<>>

\* text_segments of main.py lines 131-132
TextSegmentsOf(segs) ==
  LET texts == SelectSeq(segs, IsTextSegment)
  IN [i \in 1..Len(texts) |->
        [start |-> texts[i].start_time, end |-> texts[i].end_time,
         data |-> texts[i].data]]

IsImageEntry(t) == t.type \in {"ai_image", "custom_image"}

\* image_segments = [t for t in timeline if t['type'] in [...]], then
\* image_segments.sort(key=lambda x: x['start'])
ImageEntries(timeline) ==
  LET imgs == SelectSeq(timeline, IsImageEntry)
  IN StableSort(imgs, [i \in 1..Len(imgs) |-> imgs[i].start])

ImagePathsOf(timeline) ==
  {ImageEntries(timeline)[i].data.image_path :
     i \in 1..Len(ImageEntries(timeline))}

VideoClip(start, end, fade_in, fade_out) ==
  [kind |-> "video", start |-> start, end |-> end, image_path |-> NoPath,
   transition |-> "none", fade_in |-> fade_in, fade_out |-> fade_out]

ImageClipOf(segment, transition) ==
  [kind |-> "image", start |-> segment.start, end |-> segment.end,
   image_path |-> segment.data.image_path, transition |-> transition,
   fade_in |-> FALSE, fade_out |-> FALSE]

RECURSIVE ClipsDuration(_)
ClipsDuration(cs) ==
  IF cs = <<>> THEN 0
  ELSE (Head(cs).end - Head(cs).start) + ClipsDuration(Tail(cs))

\* VideoAssembler, the loop of lines 83-103.  Image.open(image_path) raises
\* FileNotFoundError for a missing file and nothing catches it.
RECURSIVE MoviepyClips(_, _, _, _)
MoviepyClips(image_segments, cs, current_time, missing) ==
  IF image_segments = <<>>
  THEN [clips |-> cs, current_time |-> current_time, raised |-> FALSE]
  ELSE LET segment == Head(image_segments)
           before == IF segment.start > current_time
                     THEN <<VideoClip(current_time, segment.start, FALSE, FALSE)>>
                     ELSE <<>>
       IN IF segment.data.image_path \in missing
          THEN [clips |-> cs \o before, current_time |-> current_time,
                raised |-> TRUE]
          ELSE MoviepyClips(Tail(image_segments),
                            cs \o before \o <<ImageClipOf(segment, "none")>>,
                            segment.end, missing)

\* VideoAssembler.assemble_final_video: what it leaves behind.
VideoAssembler_assemble_final_video(timeline, duration, missing) ==
  LET image_segments == ImageEntries(timeline)
      looped == MoviepyClips(image_segments, <<>>, 0, missing)
      remaining == IF looped.current_time < duration
                   THEN <<VideoClip(looped.current_time, duration, FALSE, FALSE)>>
                   ELSE <<>>
      all == looped.clips \o remaining
  IN IF image_segments = <<>>
     THEN \* lines 69-73: the source video is written with its own audio
          [pc |-> "done", clips |-> <<VideoClip(0, duration, FALSE, FALSE)>>,
           with_audio |-> SourceAudio(duration),
           output |-> SourceAudio(duration)]
     ELSE IF looped.raised
     THEN [pc |-> "raised", clips |-> looped.clips, with_audio |-> NoAudio,
           output |-> NoAudio]
     ELSE \* lines 106-116, 178-184: with_audio(original_audio), written
          [pc |-> "done", clips |-> all, with_audio |-> SourceAudio(duration),
           output |-> SourceAudio(duration)]

transitions == <<"fade", "zoom", "slide_left", "slide_right", "wipe">>

\* FFmpegVideoAssembler, the loop of lines 294-315; i counts from 0.
\* create_image_segment_with_transition opens the image at line 84.
RECURSIVE FFmpegSegments(_, _, _, _, _)
FFmpegSegments(image_segments, i, segment_paths, current_time, missing) ==
  IF image_segments = <<>>
  THEN [clips |-> segment_paths, current_time |-> current_time, raised |-> FALSE]
  ELSE LET img_seg == Head(image_segments)
           before == IF img_seg.start > current_time
                     THEN <<VideoClip(current_time, img_seg.start, i = 0, TRUE)>>
                     ELSE <<>>
           transition_type == transitions[(i % Len(transitions)) + 1]
       IN IF img_seg.data.image_path \in missing
          THEN [clips |-> segment_paths \o before, current_time |-> current_time,
                raised |-> TRUE]
          ELSE FFmpegSegments(Tail(image_segments), i + 1,
                              segment_paths \o before
                                \o <<ImageClipOf(img_seg, transition_type)>>,
                              img_seg.end, missing)

\* add_audio_to_video: ffmpeg ... -shortest ends the output with the shorter
\* of the video and the audio.
add_audio_to_video(video_length, audio_length) ==
  <<[start |-> 0, end |-> Min2(video_length, audio_length)]>>

\* render_text_on_frames reads the frames with cv2.VideoCapture, writes them
\* with cv2.VideoWriter and re-encodes that file: no audio stream reaches
\* output_path.
render_text_on_frames(video_audio) == NoAudio

\* The method without lines 318-325: the video after the last image is lost.
FFmpegVideoAssembler_assemble_final_video_NoRemaining(timeline, duration, missing) ==
  LET image_segments == ImageEntries(timeline)
      looped == FFmpegSegments(image_segments, 0, <<>>, 0, missing)
      video_with_audio == add_audio_to_video(ClipsDuration(looped.clips), duration)
  IN IF looped.raised
     THEN [pc |-> "raised", clips |-> looped.clips, with_audio |-> NoAudio,
           output |-> NoAudio]
     ELSE [pc |-> "done", clips |-> looped.clips, with_audio |-> video_with_audio,
           output |-> render_text_on_frames(video_with_audio)]

FFmpegVideoAssembler_assemble_final_video(timeline, duration, missing) ==
  LET image_segments == ImageEntries(timeline)
      looped == FFmpegSegments(image_segments, 0, <<>>, 0, missing)
      remaining == IF looped.current_time < duration
                   THEN <<VideoClip(looped.current_time, duration, TRUE, FALSE)>>
                   ELSE <<>>
      all == looped.clips \o remaining
      video_with_audio == add_audio_to_video(ClipsDuration(all), duration)
  IN IF looped.raised
     THEN [pc |-> "raised", clips |-> looped.clips, with_audio |-> NoAudio,
           output |-> NoAudio]
     ELSE [pc |-> "done", clips |-> all, with_audio |-> video_with_audio,
           output |-> render_text_on_frames(video_with_audio)]

\* The files the plan refers to that are not on disk: none, or one of them.
MissingChoices(timeline) ==
  {{}} \cup {{p} : p \in ImagePathsOf(timeline)}

AssemblerInit ==
  /\ as_pc = "waiting"
  /\ assembler = "none"
  /\ as_text_segments = <<>>
  /\ missing_files = {}
  /\ clips = <<>>
  /\ with_audio = NoAudio
  /\ output = NoAudio

AssemblerIdle ==
  /\ as_pc = "idle"
  /\ assembler = "none"
  /\ as_text_segments = <<>>
  /\ missing_files = {}
  /\ clips = <<>>
  /\ with_audio = NoAudio
  /\ output = NoAudio

\* main.py lines 120-134 with VideoAssembler.
AssembleMoviepy ==
  /\ as_pc = "waiting"
  /\ tl_pc = "built"
  /\ video_duration > 0
  /\ \E missing \in MissingChoices(render_timeline) :
       LET r == VideoAssembler_assemble_final_video(render_timeline,
                                                    video_duration, missing)
       IN /\ missing_files' = missing
          /\ as_pc' = r.pc
          /\ clips' = r.clips
          /\ with_audio' = r.with_audio
          /\ output' = r.output
  /\ assembler' = "moviepy"
  /\ as_text_segments' = TextSegmentsOf(segments)
  /\ UNCHANGED <<tlVars, phVars, anVars, fdVars, caVars, plVars, mnVars, trVars,
                 txVars, p1Vars>>

\* The same call with FFmpegVideoAssembler.
AssembleFFmpeg ==
  /\ as_pc = "waiting"
  /\ tl_pc = "built"
  /\ video_duration > 0
  /\ \E missing \in MissingChoices(render_timeline) :
       LET r == FFmpegVideoAssembler_assemble_final_video(render_timeline,
                                                          video_duration, missing)
       IN /\ missing_files' = missing
          /\ as_pc' = r.pc
          /\ clips' = r.clips
          /\ with_audio' = r.with_audio
          /\ output' = r.output
  /\ assembler' = "ffmpeg"
  /\ as_text_segments' = TextSegmentsOf(segments)
  /\ UNCHANGED <<tlVars, phVars, anVars, fdVars, caVars, plVars, mnVars, trVars,
                 txVars, p1Vars>>

AssembleNext ==
  \/ AddTextSegment
  \/ AddAiImageSegment
  \/ BuildTimeline
  \/ AssembleMoviepy
  \/ AssembleFFmpeg

(***************************************************************************)
(* CacheManager (src/utils/cache_manager.py) used by two pipelines         *)
(*                                                                         *)
(* One cache key, hence one cache file, shared by two runs of              *)
(* process_video.  The file is the sequence of chunks it holds; a save     *)
(* opens it for writing (which truncates it), writes the entry chunk by    *)
(* chunk at its own file position and closes it.                           *)
(***************************************************************************)
Pipelines == {1, 2}

CacheKinds == {"transcription", "face_detection", "image"}

\* The complete entry: chunks 1..MaxChunks in order.
Payload == [i \in 1..MaxChunks |-> i]

\* A chunk nobody wrote: the zero bytes of a hole.
Hole == 0

NoFile == [exists |-> FALSE, content |-> <<>>]

\* open(cache_file, 'w') / open(cached_path, 'wb'): created or truncated
OpenForWriting == [exists |-> TRUE, content |-> <<>>]

\* f.write of one chunk at file position pos (counted from 0)
WriteAt(content, pos, chunk) ==
  [i \in 1..Max2(Len(content), pos + 1) |->
     IF i = pos + 1 THEN chunk
     ELSE IF i <= Len(content) THEN content[i]
     ELSE Hole]

CacheInit ==
  /\ cache_kind \in CacheKinds
  /\ cache_file = NoFile
  /\ ca_pc = [p \in Pipelines |-> "load"]
  /\ ca_pos = [p \in Pipelines |-> 0]
  /\ ca_result = [p \in Pipelines |-> "none"]
  /\ ca_loaded = [p \in Pipelines |-> <<>>]

CacheIdle ==
  /\ cache_kind = "none"
  /\ cache_file = NoFile
  /\ ca_pc = [p \in Pipelines |-> "idle"]
  /\ ca_pos = [p \in Pipelines |-> 0]
  /\ ca_result = [p \in Pipelines |-> "none"]
  /\ ca_loaded = [p \in Pipelines |-> <<>>]

\* load_*: the cache_file.exists() test.  load_image returns the path of an
\* existing file at once; the entry the caller then holds is that file.
LoadExists(p) ==
  /\ ca_pc[p] = "load"
  /\ IF ~ cache_file.exists
     THEN /\ ca_result' = [ca_result EXCEPT ![p] = "miss"]
          /\ ca_pc' = [ca_pc EXCEPT ![p] = "save"]
          /\ UNCHANGED ca_loaded
     ELSE IF cache_kind = "image"
     THEN /\ ca_result' = [ca_result EXCEPT ![p] = "hit"]
          /\ ca_loaded' = [ca_loaded EXCEPT ![p] = cache_file.content]
          /\ ca_pc' = [ca_pc EXCEPT ![p] = "done"]
     ELSE /\ ca_pc' = [ca_pc EXCEPT ![p] = "load_read"]
          /\ UNCHANGED <<ca_result, ca_loaded>>
  /\ UNCHANGED <<cache_kind, cache_file, ca_pos, notCa>>

\* load_transcription / load_face_detection: open the file and json.load /
\* pickle.load it.  Anything but a complete entry makes the parser raise.
LoadRead(p) ==
  /\ ca_pc[p] = "load_read"
  /\ IF cache_file.content = Payload
     THEN /\ ca_result' = [ca_result EXCEPT ![p] = "hit"]
          /\ ca_loaded' = [ca_loaded EXCEPT ![p] = cache_file.content]
          /\ ca_pc' = [ca_pc EXCEPT ![p] = "done"]
     ELSE /\ ca_result' = [ca_result EXCEPT ![p] = "raised"]
          /\ ca_pc' = [ca_pc EXCEPT ![p] = "raised"]
          /\ UNCHANGED ca_loaded
  /\ UNCHANGED <<cache_kind, cache_file, ca_pos, notCa>>

\* save_*: after a miss the pipeline computes the value and saves it;
\* open(cache_file, 'w') truncates the file in place.
SaveOpen(p) ==
  /\ ca_pc[p] = "save"
  /\ cache_file' = OpenForWriting
  /\ ca_pos' = [ca_pos EXCEPT ![p] = 0]
  /\ ca_pc' = [ca_pc EXCEPT ![p] = "save_write"]
  /\ UNCHANGED <<cache_kind, ca_result, ca_loaded, notCa>>

\* json.dump / pickle.dump / shutil.copy2 write the next chunk.
SaveWrite(p) ==
  /\ ca_pc[p] = "save_write"
  /\ ca_pos[p] < MaxChunks
  /\ cache_file' = [cache_file EXCEPT
                      !.content = WriteAt(@, ca_pos[p], Payload[ca_pos[p] + 1])]
  /\ ca_pos' = [ca_pos EXCEPT ![p] = @ + 1]
  /\ UNCHANGED <<cache_kind, ca_pc, ca_result, ca_loaded, notCa>>

\* The with block ends: the file is closed.
SaveClose(p) ==
  /\ ca_pc[p] = "save_write"
  /\ ca_pos[p] = MaxChunks
  /\ ca_pc' = [ca_pc EXCEPT ![p] = "done"]
  /\ UNCHANGED <<cache_kind, cache_file, ca_pos, ca_result, ca_loaded, notCa>>

CacheNext ==
  \/ \E p \in Pipelines : LoadExists(p)
  \/ \E p \in Pipelines : LoadRead(p)
  \/ \E p \in Pipelines : SaveOpen(p)
  \/ \E p \in Pipelines : SaveWrite(p)
  \/ \E p \in Pipelines : SaveClose(p)

(***************************************************************************)
(* VideoEditorCLI.process_video, phases 2, 4 and 5 (src/main.py): from the *)
(* analysis results to the image segments of the timeline                  *)
(***************************************************************************)
IMAGE_DISPLAY_DURATION == 2

HasPrompt(analysis) == analysis.image_prompt # "None"

\* The segment ids whose image generation may fail: none, or one of those
\* that have a prompt.
GenerationFailures(visualization_results) ==
  {{}} \cup {{visualization_results[i].segment_id} :
               i \in {k \in 1..Len(visualization_results) :
                        HasPrompt(visualization_results[k])}}

\* Phase 4, lines 86-97: generated_images in insertion order, one entry per
\* analysis with a prompt whose image was cached or generated.
GeneratedImages(visualization_results, failures) ==
  LET Got(analysis) == HasPrompt(analysis) /\ analysis.segment_id \notin failures
      got == SelectSeq(visualization_results, Got)
  IN [i \in 1..Len(got) |->
        [segment_id |-> got[i].segment_id,
         image_path |-> ImagePath(got[i].segment_id)]]

\* analysis = next((a for a in visualization_results if ...), None)
AnalysisOf(visualization_results, segment_id) ==
  LET Is(a) == a.segment_id = segment_id
  IN Head(SelectSeq(visualization_results, Is))

\* Phase 5, lines 110-115: one add_ai_image_segment per generated image.
RECURSIVE AddGeneratedImages(_, _, _)
AddGeneratedImages(segs, images, visualization_results) ==
  IF images = <<>> THEN segs
  ELSE LET analysis == AnalysisOf(visualization_results, Head(images).segment_id)
           start_time == analysis.start_time
           end_time == start_time + IMAGE_DISPLAY_DURATION
       IN AddGeneratedImages(
            add_ai_image_segment(segs, start_time, end_time,
                                 Head(images).image_path, AnalysisData),
            Tail(images), visualization_results)

PipelineInit ==
  /\ pl_pc = "analysis"
  /\ generated_images = <<>>

PipelineIdle ==
  /\ pl_pc = "idle"
  /\ generated_images = <<>>

\* Phase 4 after batch_analyze_segments has returned.
GenerateImages ==
  /\ pl_pc = "analysis"
  /\ an_pc = "done"
  /\ \E failures \in GenerationFailures(filtered_results) :
       generated_images' = GeneratedImages(filtered_results, failures)
  /\ pl_pc' = "timeline"
  /\ UNCHANGED <<tlVars, phVars, anVars, fdVars, asVars, caVars, mnVars, trVars,
                 txVars, p1Vars>>

\* Phase 5: the image segments are added to the new TimelineManager.
AddImageSegments ==
  /\ pl_pc = "timeline"
  /\ segments' = AddGeneratedImages(segments, generated_images, filtered_results)
  /\ pl_pc' = "added"
  /\ UNCHANGED <<tl_pc, video_duration, render_timeline, timeline_json,
                 resumed_timeline, resumed_text, rebuilt_timeline, generated_images,
                 phVars, anVars, fdVars, asVars, caVars, mnVars, trVars, txVars,
                 p1Vars>>

PipelineNext ==
  \/ AnalyzeSegment
  \/ SelectAndReturn
  \/ GenerateImages
  \/ AddImageSegments

(***************************************************************************)
(* main() (src/main.py lines 150-178)                                      *)
(***************************************************************************)
\* The characters cp1252 has in its block 0x80..0x9F.
Cp1252Extras ==
  {8364, 8218, 402, 8222, 8230, 8224, 8225, 710, 8240, 352, 8249, 338, 381,
   8216, 8217, 8220, 8221, 8226, 8211, 8212, 732, 8482, 353, 8250, 339, 382,
   376}

\* str.encode(enc, errors='strict') succeeds: sys.stdout encodes what print
\* writes with its encoding and raises UnicodeEncodeError otherwise.
CanEncode(enc, s) ==
  \/ enc = "utf-8"
  \/ \A i \in 1..Len(s) :
       \/ s[i] < 128
       \/ s[i] >= 160 /\ s[i] <= 255
       \/ s[i] \in Cp1252Extras

\* "Error: Input video not found: ..." and "Error: OpenAI API key is
\* required. ...", reduced to their first character.
InputErrorMessage == <<69>>
KeyErrorMessage == <<69>>
\* "\\n(check mark U+2713) Success! Output video: ...", reduced to the mark
\* and the first letter.
SuccessMessage == <<10003, 83>>
\* "\\n(ballot X U+2717) Error: ...", reduced likewise.
FailureMessage == <<10007, 69>>

MainInit ==
  /\ mn_pc = "start"
  /\ args_valid \in BOOLEAN
  /\ input_exists \in BOOLEAN
  /\ api_key_arg \in BOOLEAN
  /\ api_key_env \in BOOLEAN
  /\ skip_cache \in BOOLEAN
  /\ stdout_encoding \in Encodings
  /\ process_outcome = "none"
  /\ printed = <<>>
  /\ exit_code = None

MainIdle ==
  /\ mn_pc = "idle"
  /\ args_valid = FALSE
  /\ input_exists = FALSE
  /\ api_key_arg = FALSE
  /\ api_key_env = FALSE
  /\ skip_cache = FALSE
  /\ stdout_encoding = "utf-8"
  /\ process_outcome = "none"
  /\ printed = <<>>
  /\ exit_code = None

mainInputs ==
  <<args_valid, input_exists, api_key_arg, api_key_env, skip_cache, stdout_encoding>>

\* lines 151-157: parser.parse_args() exits with status 2 on a usage error.
ParseArgs ==
  /\ mn_pc = "start"
  /\ IF args_valid
     THEN /\ mn_pc' = "parsed"
          /\ UNCHANGED exit_code
     ELSE /\ mn_pc' = "exited"
          /\ exit_code' = 2
  /\ UNCHANGED <<mainInputs, process_outcome, printed, notMn>>

\* lines 159-161
CheckInput ==
  /\ mn_pc = "parsed"
  /\ IF ~ input_exists
     THEN /\ printed' = Append(printed, InputErrorMessage)
          /\ exit_code' = 1
          /\ mn_pc' = "exited"
     ELSE /\ mn_pc' = "input_checked"
          /\ UNCHANGED <<printed, exit_code>>
  /\ UNCHANGED <<mainInputs, process_outcome, notMn>>

\* lines 163-166: api_key = args.api_key or settings.OPENAI_API_KEY
CheckApiKey ==
  /\ mn_pc = "input_checked"
  /\ IF ~ (api_key_arg \/ api_key_env)
     THEN /\ printed' = Append(printed, KeyErrorMessage)
          /\ exit_code' = 1
          /\ mn_pc' = "exited"
     ELSE /\ mn_pc' = "processing"
          /\ UNCHANGED <<printed, exit_code>>
  /\ UNCHANGED <<mainInputs, process_outcome, notMn>>

\* line 173: process_video runs its phases and returns the output path ...
ProcessVideoReturns ==
  /\ mn_pc = "processing"
  /\ process_outcome' = "returned"
  /\ mn_pc' = "returned"
  /\ UNCHANGED <<mainInputs, printed, exit_code, notMn>>

\* ... or raises an Exception.
ProcessVideoRaises ==
  /\ mn_pc = "processing"
  /\ process_outcome' = "raised"
  /\ mn_pc' = "handling"
  /\ UNCHANGED <<mainInputs, printed, exit_code, notMn>>

\* line 174, inside the try block: print the success line; main then
\* returns and the interpreter exits with status 0.  A UnicodeEncodeError
\* raised by print is caught by line 175 like any other Exception.
PrintSuccess ==
  /\ mn_pc = "returned"
  /\ IF CanEncode(stdout_encoding, SuccessMessage)
     THEN /\ printed' = Append(printed, SuccessMessage)
          /\ exit_code' = 0
          /\ mn_pc' = "exited"
     ELSE /\ mn_pc' = "handling"
          /\ UNCHANGED <<printed, exit_code>>
  /\ UNCHANGED <<mainInputs, process_outcome, notMn>>

\* lines 175-178: log, print the error line, sys.exit(1).  If print raises
\* here, the UnicodeEncodeError leaves main uncaught: traceback, status 1.
HandleException ==
  /\ mn_pc = "handling"
  /\ IF CanEncode(stdout_encoding, FailureMessage)
     THEN printed' = Append(printed, FailureMessage)
     ELSE UNCHANGED printed
  /\ exit_code' = 1
  /\ mn_pc' = "exited"
  /\ UNCHANGED <<mainInputs, process_outcome, notMn>>

MainNext ==
  \/ ParseArgs
  \/ CheckInput
  \/ CheckApiKey
  \/ ProcessVideoReturns
  \/ ProcessVideoRaises
  \/ PrintSuccess
  \/ HandleException

(***************************************************************************)
(* FFmpegVideoAssembler: the transitions of a run of images                *)
(* (assemble_final_video lines 292-315 and                                 *)
(* create_image_segment_with_transition lines 89-105)                      *)
(***************************************************************************)
\* The -vf filter chain create_image_segment_with_transition builds for a
\* transition type, as the list of its filters (trans_duration and the
\* clip's duration are the same in every branch).
TransitionFilter(transition_type) ==
  CASE transition_type = "fade" -> <<"fade_in", "fade_out">>
    [] transition_type = "slide_left" -> <<"overlay_slide_from_right", "fade_out">>
    [] transition_type = "slide_right" -> <<"overlay_slide_from_left", "fade_out">>
    [] transition_type = "zoom" -> <<"zoompan", "fade_out">>
    [] transition_type = "wipe" -> <<"fade_in", "fade_out">>
    [] OTHER -> <<"fade_in", "fade_out">>

\* An image entry of a render plan.
ImageEntry(start, end, k) ==
  [type |-> "ai_image", start |-> start, end |-> end, duration |-> end - start,
   data |-> [image_path |-> ImagePath(k), analysis |-> AnalysisData]]

LastEnd(timeline) == IF timeline = <<>> THEN 0 ELSE timeline[Len(timeline)].end

TransitionsInit ==
  /\ tr_pc = "planning"
  /\ tr_timeline = <<>>
  /\ tr_clips = <<>>

TransitionsIdle ==
  /\ tr_pc = "idle"
  /\ tr_timeline = <<>>
  /\ tr_clips = <<>>

\* The plan gets one more image, right after the previous one or after one
\* second of video; every image is shown for IMAGE_DISPLAY_DURATION.
PlanImage ==
  /\ tr_pc = "planning"
  /\ Len(tr_timeline) < MaxImages
  /\ \E gap \in {0, 1} :
       LET start == LastEnd(tr_timeline) + gap
       IN tr_timeline' =
            Append(tr_timeline,
                   ImageEntry(start, start + IMAGE_DISPLAY_DURATION,
                              Len(tr_timeline) + 1))
  /\ UNCHANGED <<tr_pc, tr_clips, notTr>>

\* assemble_final_video, lines 286-315, every image file present.
RenderImages ==
  /\ tr_pc = "planning"
  /\ tr_clips' = FFmpegSegments(ImageEntries(tr_timeline), 0, <<>>, 0, {}).clips
  /\ tr_pc' = "rendered"
  /\ UNCHANGED <<tr_timeline, notTr>>

TransitionsNext ==
  \/ PlanImage
  \/ RenderImages

(***************************************************************************)
(* Text overlays of one text segment, on the three render paths            *)
(* (VideoAssembler.assemble_final_video lines 119-174,                     *)
(* _add_text_overlays_moviepy lines 193-220,                               *)
(* FFmpegVideoAssembler.render_text_on_frames lines 154-258)               *)
(*                                                                         *)
(* Times are counted in ticks of half a TEXT_WORD_DELAY; the video has one *)
(* frame per tick.  The keys of the safe-zone map and the midpoint of the  *)
(* segment are kept doubled, so that a midpoint between two ticks is an    *)
(* integer too.                                                            *)
(***************************************************************************)
TEXT_WORD_DELAY == 2

\* video_size of the rendered video.
TextFrame == [w |-> 100, h |-> 100]

\* text.split() of a caption of n words: the words 1..n.
WordsOf(n) == [i \in 1..n |-> i]

\* A text segment as main.py lines 131-132 hands it to the assembler.
TextSegment(start, end, n) ==
  [start |-> start, end |-> end, data |-> [text |-> WordsOf(n)]]

\* safe_zones_map of face_detector.process_video: the zones of the frame
\* sampled at a timestamp, or no frame sampled at all.
SafeZoneMaps ==
  {[k \in {} |-> <<>>]}
    \cup {[k \in {2 * t} |-> calculate_safe_zones(TextFrame.w, TextFrame.h, fs)] :
            t \in 0..MaxTextEnd, fs \in {<<>>, <<Face(0, 0, 40, 40)>>}}

\* (safe_zone.x + safe_zone.width // 2, safe_zone.y + safe_zone.height // 2)
ZoneCenter(safe_zone) ==
  <<safe_zone.x + safe_zone.width \div 2, safe_zone.y + safe_zone.height \div 2>>

\* video_assembler.py lines 133-142: timestamp = start + duration/2 is looked
\* up in the map; the first zone's center, or (w // 2, int(h * 0.75)).
SafePositionMoviepy(segment, safe_zones_map, frame) ==
  LET timestamp2 == 2 * segment.start + (segment.end - segment.start)
  IN IF timestamp2 \in DOMAIN safe_zones_map /\ safe_zones_map[timestamp2] # <<>>
     THEN ZoneCenter(safe_zones_map[timestamp2][1])
     ELSE <<frame.w \div 2, (frame.h * 75) \div 100>>

\* video_assembler.py line 209: (frame_size[0] // 2, int(frame_size[1] * 0.85))
OverlayPositionNoImages(frame) == <<frame.w \div 2, (frame.h * 85) \div 100>>

\* video_assembler_ffmpeg.py lines 262-267: the map is not looked at.
_get_safe_position(timestamp2, safe_zones_map, frame_size) ==
  <<frame_size.w \div 2, (frame_size.h * 82) \div 100>>

\* A text clip: the words it shows, from start up to end, at position.
TextClip(words, start, end, position) ==
  [words |-> words, start |-> start, end |-> end, position |-> position]

\* video_assembler.py lines 145-171: one clip per word with a positive
\* word_duration, showing the words up to that one until the segment ends.
WordClips(segment, position) ==
  LET words == segment.data.text
      duration == segment.end - segment.start
      KeepsClip(word_idx) == duration - word_idx * TEXT_WORD_DELAY > 0
      kept == SelectSeq([i \in 1..Len(words) |-> i - 1], KeepsClip)
  IN [c \in 1..Len(kept) |->
        TextClip(SubSeq(words, 1, kept[c] + 1),
                 segment.start + kept[c] * TEXT_WORD_DELAY,
                 (segment.start + kept[c] * TEXT_WORD_DELAY)
                   + (duration - kept[c] * TEXT_WORD_DELAY),
                 position)]

\* _add_text_overlays_moviepy lines 202-215: one clip with the whole text.
WholeTextClip(segment, position) ==
  <<TextClip(segment.data.text, segment.start, segment.end, position)>>

\* render_text_on_frames lines 183-204: the frames (one per tick) at which
\* the segment is active; for the first of them line 204 reads
\* settings.TEXT_WORDS_PER_CHUNK, which settings.py does not define.
ActiveFrames(segment) ==
  {frame_idx \in 0..MaxTextEnd :
     segment.start <= frame_idx /\ frame_idx <= segment.end}

TextInit ==
  /\ tx_pc = "waiting"
  /\ tx_path = "none"
  /\ tx_segment = TextSegment(0, 0, 0)
  /\ tx_map = [k \in {} |-> <<>>]
  /\ tx_clips = <<>>
  /\ tx_position = <<>>

TextIdle ==
  /\ tx_pc = "idle"
  /\ tx_path = "none"
  /\ tx_segment = TextSegment(0, 0, 0)
  /\ tx_map = [k \in {} |-> <<>>]
  /\ tx_clips = <<>>
  /\ tx_position = <<>>

\* The arguments of assemble_final_video: one text segment and the map.
TextSegmentGiven ==
  /\ tx_pc = "waiting"
  /\ \E start \in 0..1 : \E end \in start..MaxTextEnd : \E n \in 0..MaxWords :
       tx_segment' = TextSegment(start, end, n)
  /\ tx_map' \in SafeZoneMaps
  /\ tx_pc' = "given"
  /\ UNCHANGED <<tx_path, tx_clips, tx_position, notTx>>

\* VideoAssembler.assemble_final_video, the plan holds images (lines 119-174).
RenderTextMoviepyImages ==
  /\ tx_pc = "given"
  /\ tx_path' = "moviepy_images"
  /\ tx_position' = SafePositionMoviepy(tx_segment, tx_map, TextFrame)
  /\ tx_clips' = WordClips(tx_segment, tx_position')
  /\ tx_pc' = "done"
  /\ UNCHANGED <<tx_segment, tx_map, notTx>>

\* VideoAssembler.assemble_final_video, the plan holds no image (lines 69-73).
RenderTextMoviepyNoImages ==
  /\ tx_pc = "given"
  /\ tx_path' = "moviepy_no_images"
  /\ tx_position' = OverlayPositionNoImages(TextFrame)
  /\ tx_clips' = WholeTextClip(tx_segment, tx_position')
  /\ tx_pc' = "done"
  /\ UNCHANGED <<tx_segment, tx_map, notTx>>

\* FFmpegVideoAssembler.render_text_on_frames: the position is fixed before
\* the frames are read; the first active frame raises AttributeError.
RenderTextFFmpeg ==
  /\ tx_pc = "given"
  /\ tx_path' = "ffmpeg"
  /\ tx_position' = _get_safe_position(tx_segment.start + tx_segment.end,
                                       tx_map, TextFrame)
  /\ tx_clips' = <<>>
  /\ tx_pc' = IF ActiveFrames(tx_segment) # {} THEN "raised" ELSE "done"
  /\ UNCHANGED <<tx_segment, tx_map, notTx>>

TextNext ==
  \/ TextSegmentGiven
  \/ RenderTextMoviepyImages
  \/ RenderTextMoviepyNoImages
  \/ RenderTextFFmpeg

(***************************************************************************)
(* process_video, phase 1: audio extraction and translation                *)
(* (src/main.py lines 31-44)                                               *)
(***************************************************************************)
\* transcription_data, with the translation reduced to its number of segments.
TranscriptionData(n) == [hindi |-> "None", english |-> [segments |-> n]]

\* No transcription: the None of load_transcription and of skip_cache.
NoTranscription == TranscriptionData(None)

Transcriptions == {TranscriptionData(n) : n \in 0..MaxSpeech}

\* cached_transcription, line 33.
CachedTranscription(skip, cache) ==
  IF skip THEN NoTranscription ELSE cache

\* Lines 38-42 without the finally: the file is removed after the try block.
AudioFileAfterTry_NoFinally(exists, translation_raised) ==
  IF translation_raised THEN exists ELSE FALSE

\* Lines 38-42: whether the extracted audio file exists once the try
\* statement is left; the finally clause unlinks it if it exists.
AudioFileAfterTry(exists, translation_raised) == FALSE

Phase1Init ==
  /\ p1_pc = "start"
  /\ p1_skip_cache = FALSE
  /\ p1_cache_setting = TRUE
  /\ p1_cache = NoTranscription
  /\ p1_audio_exists = FALSE
  /\ p1_transcription = NoTranscription
  /\ p1_outcome = "none"
  /\ p1_saved = FALSE

Phase1Idle ==
  /\ p1_pc = "idle"
  /\ p1_skip_cache = FALSE
  /\ p1_cache_setting = TRUE
  /\ p1_cache = NoTranscription
  /\ p1_audio_exists = FALSE
  /\ p1_transcription = NoTranscription
  /\ p1_outcome = "none"
  /\ p1_saved = FALSE

\* process_video(video_path, skip_cache) is called: the cache holds a
\* transcription of the video or none, a file may lie at audio_path from an
\* earlier run, settings.CACHE_TRANSCRIPTION is on or off.
ProcessVideoCalled ==
  /\ p1_pc = "start"
  /\ p1_skip_cache' \in BOOLEAN
  /\ p1_cache_setting' \in BOOLEAN
  /\ p1_cache' \in {NoTranscription} \cup Transcriptions
  /\ p1_audio_exists' \in BOOLEAN
  /\ p1_pc' = "called"
  /\ UNCHANGED <<p1_transcription, p1_outcome, p1_saved, notP1>>

\* Lines 33-36: the cached transcription is used, no audio is extracted.
UseCachedTranscription ==
  /\ p1_pc = "called"
  /\ CachedTranscription(p1_skip_cache, p1_cache) # NoTranscription
  /\ p1_transcription' = CachedTranscription(p1_skip_cache, p1_cache)
  /\ p1_outcome' = "cached"
  /\ p1_pc' = "left"
  /\ UNCHANGED <<p1_skip_cache, p1_cache_setting, p1_cache, p1_audio_exists,
                 p1_saved, notP1>>

\* Line 38: extract_audio writes audio_path and returns it.
ExtractAudio ==
  /\ p1_pc = "called"
  /\ CachedTranscription(p1_skip_cache, p1_cache) = NoTranscription
  /\ p1_audio_exists' = TRUE
  /\ p1_outcome' = "extracted"
  /\ p1_pc' = "try"
  /\ UNCHANGED <<p1_skip_cache, p1_cache_setting, p1_cache, p1_transcription,
                 p1_saved, notP1>>

\* Line 38: extract_audio raises (ffmpeg failed); what ffmpeg left at
\* audio_path is not known, and the phase is left with the exception.
ExtractAudioRaises ==
  /\ p1_pc = "called"
  /\ CachedTranscription(p1_skip_cache, p1_cache) = NoTranscription
  /\ p1_audio_exists' \in BOOLEAN
  /\ p1_outcome' = "extract_failed"
  /\ p1_pc' = "raised"
  /\ UNCHANGED <<p1_skip_cache, p1_cache_setting, p1_cache, p1_transcription,
                 p1_saved, notP1>>

\* Lines 39-42: translate_to_english returns, the finally clause runs.
TranslateReturns ==
  /\ p1_pc = "try"
  /\ p1_transcription' \in Transcriptions
  /\ p1_audio_exists' = AudioFileAfterTry(p1_audio_exists, FALSE)
  /\ p1_outcome' = "translated"
  /\ p1_pc' = "after_try"
  /\ UNCHANGED <<p1_skip_cache, p1_cache_setting, p1_cache, p1_saved, notP1>>

\* Lines 39-42: translate_to_english raises, the finally clause runs and the
\* exception leaves process_video.
TranslateRaises ==
  /\ p1_pc = "try"
  /\ p1_audio_exists' = AudioFileAfterTry(p1_audio_exists, TRUE)
  /\ p1_outcome' = "translate_failed"
  /\ p1_pc' = "raised"
  /\ UNCHANGED <<p1_skip_cache, p1_cache_setting, p1_cache, p1_transcription,
                 p1_saved, notP1>>

\* Lines 43-44: the transcription is saved if settings.CACHE_TRANSCRIPTION.
SaveNewTranscription ==
  /\ p1_pc = "after_try"
  /\ p1_cache' = IF p1_cache_setting THEN p1_transcription ELSE p1_cache
  /\ p1_saved' = p1_cache_setting
  /\ p1_pc' = "left"
  /\ UNCHANGED <<p1_skip_cache, p1_cache_setting, p1_audio_exists,
                 p1_transcription, p1_outcome, notP1>>

Phase1Next ==
  \/ ProcessVideoCalled
  \/ UseCachedTranscription
  \/ ExtractAudio
  \/ ExtractAudioRaises
  \/ TranslateReturns
  \/ TranslateRaises
  \/ SaveNewTranscription

(***************************************************************************)
(* Specifications, one per component                                       *)
(***************************************************************************)
InitTimeline ==
  /\ TimelineInit
  /\ PhraseIdle /\ AnalyzerIdle /\ ZonesIdle /\ AssemblerIdle
  /\ CacheIdle /\ PipelineIdle /\ MainIdle /\ TransitionsIdle
  /\ TextIdle
  /\ Phase1Idle
SpecTimeline == InitTimeline /\ [][TimelineNext]_vars

InitPhrases ==
  /\ PhraseInit
  /\ TimelineIdle /\ AnalyzerIdle /\ ZonesIdle /\ AssemblerIdle
  /\ CacheIdle /\ PipelineIdle /\ MainIdle /\ TransitionsIdle
  /\ TextIdle
  /\ Phase1Idle
SpecPhrases == InitPhrases /\ [][PhraseNext]_vars

InitAnalyzer ==
  /\ AnalyzerInit
  /\ TimelineIdle /\ PhraseIdle /\ ZonesIdle /\ AssemblerIdle
  /\ CacheIdle /\ PipelineIdle /\ MainIdle /\ TransitionsIdle
  /\ TextIdle
  /\ Phase1Idle
SpecAnalyzer == InitAnalyzer /\ [][AnalyzerNext]_vars

InitZones ==
  /\ ZonesInit
  /\ TimelineIdle /\ PhraseIdle /\ AnalyzerIdle /\ AssemblerIdle
  /\ CacheIdle /\ PipelineIdle /\ MainIdle /\ TransitionsIdle
  /\ TextIdle
  /\ Phase1Idle
SpecZones == InitZones /\ [][ZonesNext]_vars

InitAssemble ==
  /\ TimelineInit /\ AssemblerInit
  /\ PhraseIdle /\ AnalyzerIdle /\ ZonesIdle
  /\ CacheIdle /\ PipelineIdle /\ MainIdle /\ TransitionsIdle
  /\ TextIdle
  /\ Phase1Idle
SpecAssemble == InitAssemble /\ [][AssembleNext]_vars

InitCache ==
  /\ CacheInit
  /\ TimelineIdle /\ PhraseIdle /\ AnalyzerIdle /\ ZonesIdle /\ AssemblerIdle
  /\ PipelineIdle /\ MainIdle /\ TransitionsIdle
  /\ TextIdle
  /\ Phase1Idle
SpecCache == InitCache /\ [][CacheNext]_vars

InitPipeline ==
  /\ AnalyzerInit /\ TimelineInit /\ PipelineInit
  /\ PhraseIdle /\ ZonesIdle /\ AssemblerIdle /\ CacheIdle /\ MainIdle /\ TransitionsIdle
  /\ TextIdle
  /\ Phase1Idle
SpecPipeline == InitPipeline /\ [][PipelineNext]_vars

InitMain ==
  /\ MainInit
  /\ TimelineIdle /\ PhraseIdle /\ AnalyzerIdle /\ ZonesIdle /\ AssemblerIdle
  /\ CacheIdle /\ PipelineIdle /\ TransitionsIdle
  /\ TextIdle
  /\ Phase1Idle
SpecMain == InitMain /\ [][MainNext]_vars

InitTransitions ==
  /\ TransitionsInit
  /\ TimelineIdle /\ PhraseIdle /\ AnalyzerIdle /\ ZonesIdle /\ AssemblerIdle
  /\ CacheIdle /\ PipelineIdle /\ MainIdle
  /\ TextIdle
  /\ Phase1Idle
SpecTransitions == InitTransitions /\ [][TransitionsNext]_vars

InitText ==
  /\ TextInit
  /\ TimelineIdle /\ PhraseIdle /\ AnalyzerIdle /\ ZonesIdle /\ AssemblerIdle
  /\ CacheIdle /\ PipelineIdle /\ MainIdle /\ TransitionsIdle
  /\ Phase1Idle
SpecText == InitText /\ [][TextNext]_vars

InitPhase1 ==
  /\ Phase1Init
  /\ TimelineIdle /\ PhraseIdle /\ AnalyzerIdle /\ ZonesIdle /\ AssemblerIdle
  /\ CacheIdle /\ PipelineIdle /\ MainIdle /\ TransitionsIdle /\ TextIdle
SpecPhase1 == InitPhase1 /\ [][Phase1Next]_vars

(***************************************************************************)
(* Properties of the timeline                                              *)
(***************************************************************************)
BackboneTypes == {"original_video", "ai_image", "custom_image"}
IsBackboneEntry(e) == e.type \in BackboneTypes
Backbone(plan) == SelectSeq(plan, IsBackboneEntry)

\* The entries b, in the order given, cover [0, vd) piece by piece: every
\* piece is a non-empty interval, the first starts at 0, each starts where
\* the previous one ends, and the last ends at vd.
Tiles(b, vd) ==
  IF b = <<>> THEN vd = 0
  ELSE /\ b[1].start = 0
       /\ \A i \in 1..Len(b) : b[i].start < b[i].end
       /\ \A i \in 1..(Len(b) - 1) : b[i + 1].start = b[i].end
       /\ b[Len(b)].end = vd

ImageSegments == SelectSeq(segments, IsImageSegment)

\* The image segments are proper intervals (TimedSegment: end > start) that
\* start at or after 0 and do not overlap pairwise.
ImagesNonOverlapping ==
  /\ \A i \in 1..Len(ImageSegments) :
        /\ ImageSegments[i].start_time >= 0
        /\ ImageSegments[i].end_time > ImageSegments[i].start_time
  /\ \A i, j \in 1..Len(ImageSegments) :
        i # j => \/ ImageSegments[i].end_time <= ImageSegments[j].start_time
                 \/ ImageSegments[j].end_time <= ImageSegments[i].start_time

DurationCoversImages ==
  \A i \in 1..Len(ImageSegments) : ImageSegments[i].end_time <= video_duration

TimelineBuilt == tl_pc # "adding"

\* C1: for pairwise non-overlapping image segments starting at or after 0
\* and a video_duration at or after the last image's end, the backbone
\* entries of the plan returned by build_render_timeline, in start order,
\* exactly cover [0, video_duration): the first starts at 0, each starts at
\* the previous one's end, the last ends at video_duration.
C1_TimelineTiling ==
  (TimelineBuilt /\ ImagesNonOverlapping /\ DurationCoversImages)
    => Tiles(Backbone(render_timeline), video_duration)

\* Two separate images were added and the plan holds footage between or
\* around them.
C1_Witness ==
  /\ TimelineBuilt /\ ImagesNonOverlapping /\ DurationCoversImages
  /\ Len(ImageSegments) = 2
  /\ \E i \in 1..Len(render_timeline) : render_timeline[i].type = "original_video"

ImagesProper ==
  \A i \in 1..Len(ImageSegments) :
    ImageSegments[i].end_time > ImageSegments[i].start_time

\* C2: after any sequence of add_text_segment / add_ai_image_segment calls
\* and for any video_duration, the backbone entries of the returned plan
\* tile [0, video_duration) with no gap and no overlap.  Stated here for the
\* most favourable of those cases only: every image segment has end > start
\* and video_duration is at or after every image's end.
C2_TilingForAnySegments ==
  (TimelineBuilt /\ ImagesProper /\ DurationCoversImages)
    => Tiles(Backbone(render_timeline), video_duration)

\* C8: the plan obtained by exporting the segments and reimporting the file
\* as resume_assembly does is identical by value to the plan
\* build_render_timeline returned for the same segments and video_duration.
C8_RoundTripPlanIdentical ==
  tl_pc = "resumed" => resumed_timeline = render_timeline

(***************************************************************************)
(* Properties of the phrases                                               *)
(***************************************************************************)
PhrasesReturned == ph_pc = "done"

\* Whisper's ids are the positions, counted from 0.
SegById(id) == speech_segments[id + 1]
SegmentIds == {speech_segments[i].id : i \in 1..Len(speech_segments)}

\* How many times id occurs in the segment_ids of the returned phrases.
Occurrences(id) ==
  Cardinality({pk \in (1..Len(phrases)) \X (1..MaxSpeech + 1) :
                 /\ pk[2] <= Len(phrases[pk[1]].segment_ids)
                 /\ phrases[pk[1]].segment_ids[pk[2]] = id})

\* No two returned phrases have overlapping spans [start, end).
PhraseSpansDisjoint ==
  \A i, j \in 1..Len(phrases) :
    i < j => ~(/\ phrases[i].start < phrases[j].end
               /\ phrases[j].start < phrases[i].end)

\* C3 as stated: the spans of the returned phrases never overlap and every
\* input segment id appears in the segment_ids of exactly one phrase.
C3_EveryIdInExactlyOnePhrase ==
  PhrasesReturned =>
    /\ PhraseSpansDisjoint
    /\ \A id \in SegmentIds : Occurrences(id) = 1

\* C3 amended: for a time-ordered transcription the spans of the returned
\* phrases never overlap, every segment id appears in at most one phrase, and
\* every segment whose text is not empty appears in exactly one.
C3_PhraseTiling ==
  PhrasesReturned =>
    /\ PhraseSpansDisjoint
    /\ \A id \in SegmentIds :
         /\ Occurrences(id) <= 1
         /\ SegById(id).text # <<>> => Occurrences(id) = 1

\* A transcription was split into two phrases, and a segment without text
\* was left out of both.
C3_Witness ==
  /\ PhrasesReturned
  /\ Len(phrases) >= 2
  /\ \E id \in SegmentIds : Occurrences(id) = 0

\* C9 as stated, for transcriptions in which every segment has text: a
\* phrase that aggregates more than one segment has end - start <=
\* max_duration.
AllSegmentsHaveText ==
  \A i \in 1..Len(speech_segments) : speech_segments[i].text # <<>>

C9_PhraseSpanWithinMax ==
  (PhrasesReturned /\ AllSegmentsHaveText) =>
    \A p \in 1..Len(phrases) :
      Len(phrases[p].segment_ids) > 1 =>
        phrases[p].end - phrases[p].start <= max_duration

\* C9 amended: in a phrase that aggregates more than one segment and whose
\* first segment has text, every later segment ends within max_duration of
\* the phrase's start (the phrase's own end may lie later: a split sets it
\* to the start of the next segment).
C9_AggregatedSegmentsWithinMax ==
  PhrasesReturned =>
    \A p \in 1..Len(phrases) :
      LET ids == phrases[p].segment_ids
      IN (Len(ids) > 1 /\ SegById(ids[1]).text # <<>>) =>
           \A k \in 2..Len(ids) :
             SegById(ids[k]).end - phrases[p].start <= max_duration

\* A phrase of two segments was closed by a segment that starts after a
\* silent gap, so the phrase's span exceeds max_duration.
C9_Witness ==
  /\ PhrasesReturned /\ AllSegmentsHaveText
  /\ \E p \in 1..Len(phrases) :
       /\ Len(phrases[p].segment_ids) > 1
       /\ phrases[p].end - phrases[p].start > max_duration

(***************************************************************************)
(* Properties of the image selection                                       *)
(***************************************************************************)
SelectionReturned == an_pc = "done"

Selected(id) ==
  \E k \in 1..Len(filtered_results) : filtered_results[k].segment_id = id

ZonesReturned == fd_pc = "done"

\* Position of a zone in the grid scan: row 0 col 0 first, row-major.
ScanIndex(z) == 3 * z.row + z.col

\* The face lies inside the center cell of the grid and its centre is the
\* centre of that cell (so also of the middle third of the frame).
CenteredInMiddleThird(f) ==
  LET grid_w == frame_w \div 3
      grid_h == frame_h \div 3
  IN /\ grid_w > 0 /\ grid_h > 0
     /\ f.w <= grid_w /\ f.h <= grid_h
     /\ 2 * f.x + f.w = 3 * grid_w
     /\ 2 * f.y + f.h = 3 * grid_h

\* C6: for a frame with a single face rectangle centered in the middle
\* third of the frame, the first zone calculate_safe_zones returns is a
\* bottom-row zone, one with y = 2 * (height // 3).
C6_CenteredFaceBottomRowFirst ==
  (ZonesReturned /\ Len(faces) = 1 /\ CenteredInMiddleThird(faces[1]))
    => zones[1].y = 2 * (frame_h \div 3)

\* C7: for any frame size and any list of face rectangles,
\* calculate_safe_zones returns exactly 9 zones, one per grid cell, each
\* with 0 <= score <= 100, ordered by score descending, and two zones of
\* equal score appear in row-major scan order.
C7_NineZonesClampedSorted ==
  ZonesReturned =>
    LET scale == ScoreScale(frame_w \div 3, frame_h \div 3)
    IN /\ Len(zones) = 9
       /\ {ScanIndex(zones[i]) : i \in 1..Len(zones)} = 0..8
       /\ \A i \in 1..Len(zones) :
            /\ 0 <= zones[i].score
            /\ zones[i].score <= 100 * scale
       /\ \A i, j \in 1..Len(zones) :
            i < j => \/ zones[i].score > zones[j].score
                     \/ /\ zones[i].score = zones[j].score
                        /\ ScanIndex(zones[i]) < ScanIndex(zones[j])

\* A face covers part of the frame; some zone is clamped at 0, some zones
\* tie, and some zone of a later cell outscores a zone of an earlier one.
C7_Witness ==
  /\ ZonesReturned
  /\ Len(faces) >= 1
  /\ frame_w >= 3 /\ frame_h >= 3
  /\ \E i \in 1..Len(zones) : zones[i].score = 0
  /\ \E i, j \in 1..Len(zones) :
       i < j /\ zones[i].score = zones[j].score
  /\ \E i, j \in 1..Len(zones) :
       /\ i < j
       /\ zones[i].score > zones[j].score
       /\ ScanIndex(zones[i]) > ScanIndex(zones[j])

(***************************************************************************)
(* Properties of the assembled video                                       *)
(***************************************************************************)
Assembled == as_pc = "done"

\* The plan was built from proper, pairwise disjoint image segments that end
\* within the video.
WellFormedPlan == ImagesNonOverlapping /\ DurationCoversImages

\* C4: for any render plan with N image insertions, the output's audio track
\* is the source audio attached once to the whole output, with exactly the
\* source audio's duration, in both VideoAssembler and FFmpegVideoAssembler.
C4_OutputAudioIsSourceAudio ==
  (Assembled /\ WellFormedPlan) => output = SourceAudio(video_duration)

ClipPaths == {clips[i].image_path : i \in 1..Len(clips)} \ {NoPath}

\* C10: when one image entry of the plan references a file that does not
\* exist, assemble_final_video skips that insert and completes the render
\* with the remaining entries.
C10_MissingImageSkipped ==
  (as_pc \in {"done", "raised"} /\ WellFormedPlan /\ missing_files # {})
    => /\ as_pc = "done"
       /\ ClipPaths = ImagePathsOf(render_timeline) \ missing_files

(***************************************************************************)
(* Properties of the cache                                                 *)
(***************************************************************************)
\* C11: with two pipelines on the same cache key, a load interleaved with a
\* save either returns the complete saved value or reports a miss; it never
\* observes a partially written entry and never fails.
C11_LoadCompleteOrMiss ==
  \A p \in Pipelines :
    \/ ca_result[p] \in {"none", "miss"}
    \/ ca_result[p] = "hit" /\ ca_loaded[p] = Payload

\* C12: the list batch_analyze_segments returns is ordered by source
\* timestamp: for input segments with increasing start times the start_time
\* of the returned results is non-decreasing.
C12_ResultsInTimestampOrder ==
  SelectionReturned =>
    \A i, j \in 1..Len(filtered_results) :
      i < j => filtered_results[i].start_time <= filtered_results[j].start_time

\* C12 as the code has it: the returned list is ordered by importance_score
\* descending, and only results of equal score are in source timestamp
\* order.
C12_TimestampOrderWithinScore ==
  SelectionReturned =>
    \A i, j \in 1..Len(filtered_results) :
      i < j =>
        \/ filtered_results[i].importance_score > filtered_results[j].importance_score
        \/ /\ filtered_results[i].importance_score = filtered_results[j].importance_score
           /\ filtered_results[i].start_time < filtered_results[j].start_time

\* A returned list with two results of equal score and with a later segment
\* ahead of an earlier one.
C12_Witness ==
  /\ SelectionReturned
  /\ \E i, j \in 1..Len(filtered_results) :
       /\ i < j
       /\ filtered_results[i].importance_score = filtered_results[j].importance_score
  /\ \E i, j \in 1..Len(filtered_results) :
       /\ i < j
       /\ filtered_results[i].start_time > filtered_results[j].start_time

(***************************************************************************)
(* Properties of the pipeline                                              *)
(***************************************************************************)
ImagesAdded == pl_pc = "added"

\* C13: the image segments process_video adds to the timeline, one per
\* generated image and spanning [start_time, start_time +
\* IMAGE_DISPLAY_DURATION], never overlap each other when the speech
\* segments do not overlap.
C13_PipelineImagesDisjoint ==
  ImagesAdded =>
    \A i, j \in 1..Len(ImageSegments) :
      i # j => \/ ImageSegments[i].end_time <= ImageSegments[j].start_time
               \/ ImageSegments[j].end_time <= ImageSegments[i].start_time

(***************************************************************************)
(* Properties of main()                                                    *)
(***************************************************************************)
MainExited == mn_pc = "exited"

PipelineStarted == process_outcome # "none"

\* C14: main() exits with code 1 when the input file is missing, when no
\* API key is available, or when process_video raises, and with code 0,
\* after printing the output path, exactly when process_video returns; a
\* missing input file or key exits before any pipeline phase starts.  (For
\* a command line that parses.)
C14_ExitCodes ==
  (MainExited /\ args_valid) =>
    /\ ~ input_exists => exit_code = 1 /\ ~ PipelineStarted
    /\ ~ (api_key_arg \/ api_key_env) => exit_code = 1 /\ ~ PipelineStarted
    /\ process_outcome = "raised" => exit_code = 1
    /\ exit_code = 0 <=> process_outcome = "returned"
    /\ exit_code = 0 => SuccessMessage \in {printed[i] : i \in 1..Len(printed)}

ResultsOf(id) == SelectSeq(results, LAMBDA r : r.segment_id = id)

\* C15: when the scoring call fails for one segment, analyze_segment
\* returns the default result (needs_visualization false, importance_score
\* 0, no image_prompt, that segment's id and time bounds) and the batch goes
\* on: every segment taken so far, the failed one included, has exactly one
\* result.
C15_FailedSegmentGetsDefault ==
  failed_id # None =>
    /\ an_pc \in {"loop", "done"}
    /\ ResultsOf(failed_id) =
         <<[needs_visualization |-> FALSE, importance_score |-> 0,
            image_prompt |-> "None", segment_id |-> failed_id,
            start_time |-> AnalyzedSegment(failed_id).start,
            end_time |-> AnalyzedSegment(failed_id).end]>>
    /\ \A id \in 0..(Len(results) - 1) : Len(ResultsOf(id)) = 1

\* The call for segment 0 failed, two more segments were analysed after it
\* and the batch returned a selection.
C15_Witness ==
  /\ failed_id = 0
  /\ an_pc = "done"
  /\ Len(results) >= 3
  /\ \E i \in 1..Len(results) : results[i].needs_visualization
  /\ Len(filtered_results) >= 3

(***************************************************************************)
(* Properties of the assembled clips                                       *)
(***************************************************************************)
\* The clip made for backbone entry e: the source sub-clip [e.start, e.end)
\* for an original_video entry, an image clip of e's image and duration
\* e.end - e.start for an image entry.
ClipMatchesEntry(clip, e) ==
  IF e.type = "original_video"
  THEN /\ clip.kind = "video"
       /\ clip.start = e.start
       /\ clip.end = e.end
  ELSE /\ clip.kind = "image"
       /\ clip.image_path = e.data.image_path
       /\ clip.end - clip.start = e.end - e.start

C16_WitnessMoviepy ==
  /\ Assembled /\ WellFormedPlan
  /\ assembler = "moviepy"
  /\ Len(clips) >= 3
  /\ clips[1].kind = "video" /\ clips[2].kind = "image" /\ clips[3].kind = "video"

(***************************************************************************)
(* Properties of the transitions                                           *)
(***************************************************************************)
IsImageClip(c) == c.kind = "image"

\* The image clips of the run, in start-time order.
ImageClips == SelectSeq(tr_clips, IsImageClip)

\* C17: the transition of the i-th image (from 0) is element i mod 5 of
\* [fade, zoom, slide_left, slide_right, wipe], and any two consecutive
\* images are rendered with different filter effects.
C17_TransitionsCycleAndDiffer ==
  tr_pc = "rendered" =>
    /\ Len(ImageClips) = Len(tr_timeline)
    /\ \A i \in 1..Len(ImageClips) :
         ImageClips[i].transition =
           <<"fade", "zoom", "slide_left", "slide_right", "wipe">>[((i - 1) % 5) + 1]
    /\ \A i \in 1..(Len(ImageClips) - 1) :
         TransitionFilter(ImageClips[i].transition)
           # TransitionFilter(ImageClips[i + 1].transition)

(***************************************************************************)
(* Properties of the loop of get_phrases_from_segments                     *)
(***************************************************************************)
\* One iteration of the loop is taken, for speech_segments[seg_i].
PhraseIteration == ph_pc = "loop" /\ seg_i' = seg_i + 1

\* The current phrase is closed and a new one starts at the segment.
StartsNewPhrase(segment) ==
  /\ Len(phrases') = Len(phrases) + 1
  /\ current_phrase'.segment_ids = <<segment.id>>
  /\ current_phrase'.text = segment.text
  /\ current_phrase'.start = segment.start

\* The segment is appended to the current phrase and no phrase is closed.
AppendsToCurrentPhrase(segment) ==
  /\ phrases' = phrases
  /\ current_phrase'.segment_ids = Append(current_phrase.segment_ids, segment.id)
  /\ current_phrase'.end = segment.end
  /\ current_phrase'.start =
       IF current_phrase.start = None THEN segment.start ELSE current_phrase.start

\* C18: an iteration starts a new phrase at its segment if and only if
\* (segment.end - current_phrase.start) > max_duration and the current
\* phrase has non-empty text; otherwise it appends the segment to the
\* current phrase.
C18_NewPhraseIffOverlongAndText ==
  [][PhraseIteration =>
       LET segment == speech_segments[seg_i]
       IN IF /\ current_phrase.text # <<>>
             /\ segment.end - current_phrase.start > max_duration
          THEN StartsNewPhrase(segment) /\ ~AppendsToCurrentPhrase(segment)
          ELSE AppendsToCurrentPhrase(segment) /\ ~StartsNewPhrase(segment)]_vars

\* A phrase was closed by a split and a later segment was appended to the
\* phrase the split opened.
C18_Witness ==
  /\ ph_pc = "loop"
  /\ Len(phrases) >= 1
  /\ Len(current_phrase.segment_ids) >= 2

\* The last segment id of a phrase.
LastId(phrase) == phrase.segment_ids[Len(phrase.segment_ids)]

\* The returned phrase i is the open phrase emitted after the loop (lines
\* 86-87); every other returned phrase was closed by a split (lines 70-72).
EmittedAfterLoop(i) == i = Len(phrases) /\ current_phrase.text # <<>>
ClosedBySplit(i) == ~EmittedAfterLoop(i)

\* The segment that closed phrase i: every segment goes to the current
\* phrase or opens the next one, so it is the one after the phrase's last.
Trigger(i) == SegById(LastId(phrases[i]) + 1)

OverLong(segment) ==
  segment.text # <<>> /\ segment.end - segment.start > max_duration

\* No segment starts before the previous one has ended.
SegmentsDisjoint ==
  \A i \in 1..(Len(speech_segments) - 1) :
    speech_segments[i].end <= speech_segments[i + 1].start

IdsOf(phrase) == {phrase.segment_ids[k] : k \in 1..Len(phrase.segment_ids)}

\* Zero segments give zero phrases, and an open phrase with text is emitted.
EdgeCasesEmitted ==
  /\ speech_segments = <<>> => phrases = <<>>
  /\ current_phrase.text # <<>> =>
       Len(phrases) >= 1 /\ phrases[Len(phrases)] = current_phrase

\* C20 as stated, for segments that do not overlap: an over-long segment
\* with text is emitted as a phrase whose segment_ids contain only that
\* segment; zero segments give zero phrases; a final open phrase with text is
\* emitted.
C20_OverLongSegmentAlone ==
  (PhrasesReturned /\ SegmentsDisjoint) =>
    /\ \A id \in SegmentIds :
         OverLong(SegById(id)) =>
           \E p \in 1..Len(phrases) : phrases[p].segment_ids = <<id>>
    /\ EdgeCasesEmitted

\* C20 amended: for segments that do not overlap, an over-long segment with
\* text is emitted in a phrase that holds, besides it, only segments without
\* text that come before it; zero segments give zero phrases; a final open
\* phrase with text is emitted.
C20_OverLongSegmentEmitted ==
  (PhrasesReturned /\ SegmentsDisjoint) =>
    /\ \A id \in SegmentIds :
         OverLong(SegById(id)) =>
           \E p \in 1..Len(phrases) :
             /\ id \in IdsOf(phrases[p])
             /\ \A j \in IdsOf(phrases[p]) \ {id} :
                  j < id /\ SegById(j).text = <<>>
    /\ EdgeCasesEmitted

\* An over-long segment with text was emitted as a phrase of its own, after a
\* phrase that it closed.
C20_Witness ==
  /\ PhrasesReturned /\ SegmentsDisjoint
  /\ Len(phrases) >= 2
  /\ \E id \in SegmentIds :
       /\ OverLong(SegById(id))
       /\ phrases[Len(phrases)].segment_ids = <<id>>

(***************************************************************************)
(* Properties of the plan's order, text entries and fields                 *)
(***************************************************************************)
\* C21: the plan returned by build_render_timeline is ordered by start time
\* ascending, for any text and image segments.
C21_PlanOrderedByStart ==
  TimelineBuilt =>
    \A i \in 1..(Len(render_timeline) - 1) :
      render_timeline[i].start <= render_timeline[i + 1].start

\* A text overlay, appended after the backbone, stands in the plan before a
\* backbone entry that starts later.
C21_Witness ==
  /\ TimelineBuilt
  /\ \E i, j \in 1..Len(render_timeline) :
       /\ i < j
       /\ render_timeline[i].type = "text_overlay"
       /\ render_timeline[j].type # "text_overlay"
       /\ render_timeline[i].start < render_timeline[j].start

IsTextOverlay(t) == t.type = "text_overlay"

\* The text segments held by the TimelineManager, in the order added.
AddedTexts == SelectSeq(segments, IsTextSegment)

\* The plan entry is the text_overlay of the text segment, unmodified.
OverlayOf(t, text_seg) ==
  /\ t.type = "text_overlay"
  /\ t.start = text_seg.start_time
  /\ t.end = text_seg.end_time
  /\ t.data = text_seg.data

\* C22: every text segment added with add_text_segment appears in the plan
\* as exactly one text_overlay entry with the same start, end and data,
\* whatever images it overlaps (equal segments counted as often as they
\* were added), and the plan has as many text_overlay entries as there are
\* text segments.
C22_TextSegmentsKept ==
  TimelineBuilt =>
    /\ Len(SelectSeq(render_timeline, IsTextOverlay)) = Len(AddedTexts)
    /\ \A i \in 1..Len(AddedTexts) :
         Cardinality({j \in 1..Len(render_timeline) :
                        OverlayOf(render_timeline[j], AddedTexts[i])})
           = Cardinality({k \in 1..Len(AddedTexts) : AddedTexts[k] = AddedTexts[i]})

\* A text segment lies across an image segment of the plan.
C22_Witness ==
  /\ TimelineBuilt
  /\ \E i, j \in 1..Len(render_timeline) :
       /\ render_timeline[i].type = "text_overlay"
       /\ render_timeline[j].type = "ai_image"
       /\ render_timeline[i].start < render_timeline[j].end
       /\ render_timeline[j].start < render_timeline[i].end

\* C23: every entry of the plan, original_video included, carries the fields
\* type, start, end, duration and data, with duration = end - start.
C23_EveryEntryHasAllFields ==
  TimelineBuilt =>
    \A i \in 1..Len(render_timeline) :
      /\ DOMAIN render_timeline[i] = {"type", "start", "end", "duration", "data"}
      /\ render_timeline[i].duration = render_timeline[i].end - render_timeline[i].start

\* A call of build_render_timeline returns: the first or the second one.
BuildReturns ==
  \/ tl_pc = "adding" /\ tl_pc' = "built"
  \/ tl_pc = "built" /\ tl_pc' = "rebuilt"

TextRenderEnded == tx_pc \in {"done", "raised"}

\* Twice the temporal midpoint of the text segment.
Midpoint2 == tx_segment.start + tx_segment.end

\* The fixed bottom-center positions of the three render paths.
BottomCenter ==
  {<<TextFrame.w \div 2, (TextFrame.h * p) \div 100>> : p \in {75, 82, 85}}

\* C25: on every render path the position of a text segment is the center
\* of the top-ranked zone the safe-zone map holds for the segment's
\* midpoint, a fixed bottom-center position when the map holds none, and
\* every word of the segment is drawn there.
C25_PositionFromSafeZones ==
  TextRenderEnded =>
    /\ IF Midpoint2 \in DOMAIN tx_map /\ tx_map[Midpoint2] # <<>>
       THEN tx_position = ZoneCenter(tx_map[Midpoint2][1])
       ELSE tx_position \in BottomCenter
    /\ \A c \in 1..Len(tx_clips) : tx_clips[c].position = tx_position

\* The number of words on screen at tick t: the longest text among the
\* clips playing at t.
RECURSIVE MaxWordsOf(_)
MaxWordsOf(cs) ==
  IF cs = <<>> THEN 0 ELSE Max2(Len(Head(cs).words), MaxWordsOf(Tail(cs)))

PlayingAt(t) ==
  LET Plays(c) == c.start <= t /\ t < c.end IN SelectSeq(tx_clips, Plays)

WordsShownAt(t) == MaxWordsOf(PlayingAt(t))

\* C26: at every time t of the segment the words shown are the prefix that
\* holds the k-th word (k from 0) from start + k * TEXT_WORD_DELAY on, up to
\* the segment's end, and no word is shown outside the segment.
C26_WordsAppearOneByOne ==
  TextRenderEnded =>
    /\ tx_pc = "done"
    /\ \A t \in 0..MaxTextEnd :
         WordsShownAt(t) =
           IF tx_segment.start <= t /\ t < tx_segment.end
           THEN Min2(Len(tx_segment.data.text),
                     (t - tx_segment.start) \div TEXT_WORD_DELAY + 1)
           ELSE 0

\* C29: on the image-insert path of VideoAssembler every word of the text
\* segment is shown before the segment ends.
C29_EveryWordShown ==
  (tx_pc = "done" /\ tx_path = "moviepy_images") =>
    \A k \in 1..Len(tx_segment.data.text) :
      \E c \in 1..Len(tx_clips) :
        /\ Len(tx_clips[c].words) >= k
        /\ tx_clips[c].start < tx_segment.end

\* Every speech segment ends after it starts.
SegmentsProper ==
  \A i \in 1..Len(speech_segments) :
    speech_segments[i].end > speech_segments[i].start

\* C27: for speech segments that are ordered, pairwise non-overlapping and
\* each end after they start, every phrase returned by
\* get_phrases_from_segments has end > start.
C27_PhraseEndAfterStart ==
  (PhrasesReturned /\ SegmentsDisjoint /\ SegmentsProper) =>
    \A p \in 1..Len(phrases) : phrases[p].end > phrases[p].start

\* Two phrases were returned for back-to-back segments, the first closed at
\* the start of the segment that follows it.
C27_Witness ==
  /\ PhrasesReturned /\ SegmentsDisjoint /\ SegmentsProper
  /\ Len(phrases) >= 2
  /\ phrases[1].end = phrases[2].start

\* C28: whenever fewer than MAX_IMAGES_TOTAL analysed segments are flagged
\* needs_visualization, every flagged segment is among the results
\* batch_analyze_segments returns.
C28_FlaggedNeverDisplaced ==
  (SelectionReturned
     /\ Len(SelectSeq(results, NeedsVisualization)) < MAX_IMAGES_TOTAL) =>
    \A i \in 1..Len(results) :
      results[i].needs_visualization => Selected(results[i].segment_id)

(***************************************************************************)
(* Properties of phase 1 of process_video                                  *)
(***************************************************************************)
\* Phase 1 has been left, by falling through or with an exception.
Phase1Left == p1_pc \in {"left", "raised"}

\* extract_audio returned in this run.
AudioWasExtracted == p1_outcome \in {"translated", "translate_failed"}

\* C30: whenever audio was extracted, the extracted audio file no longer
\* exists once phase 1 is left, whether the transcription call returned or
\* raised; the transcription is written to the cache only after a
\* transcription call that returned, and then it is the one written.
C30_AudioRemovedCacheOnlyOnSuccess ==
  /\ (Phase1Left /\ AudioWasExtracted) => ~p1_audio_exists
  /\ p1_saved => (p1_outcome = "translated" /\ p1_cache = p1_transcription)
  /\ (Phase1Left /\ p1_outcome = "translate_failed") => ~p1_saved

\* The transcription call raised after the audio was extracted: the file is
\* gone and nothing was saved.
C30_Witness ==
  /\ p1_pc = "raised"
  /\ p1_outcome = "translate_failed"
  /\ ~p1_audio_exists
  /\ ~p1_saved

====
